---- MODULE Spec2Model ----
(***************************************************************************)
(* Food-logging assistant: the Pattern Extractor (nutrition_api.py), the   *)
(* structured fallback chain (NutritionAPI.get_food_nutrition), the AI     *)
(* mode (AIFoodParser.parse_food_with_ai) and the chat handlers with the   *)
(* pending-interaction map (CalorieTrackingBot).                           *)
(*                                                                         *)
(* A Python str is a sequence of one-character strings.  A number of a     *)
(* nutrition dict is the double nearest a decimal with one fractional      *)
(* digit, or a few units in the last place off it (see Times).  Optional[T]*)
(* is a sequence of length at most one: None is                            *)
(* <<>> and a value v is <<v>>.  A dict is a record; a key the dict lacks  *)
(* is a field the record lacks.                                            *)
(***************************************************************************)
EXTENDS Integers, Sequences, FiniteSets, TLC

None == <<>>
Some(v) == <<v>>

\* F(x), with the value of x computed once and bound to the parameter of F (a
\* local variable of the source: `message = message.lower()`)
With(x, F(_)) == CHOOSE r \in {F(v) : v \in {x}} : TRUE

SetMin(S) == CHOOSE x \in S : \A y \in S : x <= y
SetMax(S) == CHOOSE x \in S : \A y \in S : x >= y

(***************************************************************************)
(* str primitives.  The alphabet is the characters below U+0100 (ASCII and *)
(* Latin-1); the character classes are Python's on that alphabet.          *)
(***************************************************************************)
\* str.lower(): A to Z and the Latin-1 capitals (C0 to DE without D7) have a
\* lower-case form; every other character of the alphabet is its own
UpperLetters == <<"A","B","C","D","E","F","G","H","I","J","K","L","M",
                  "N","O","P","Q","R","S","T","U","V","W","X","Y","Z",
                  "À","Á","Â","Ã","Ä","Å","Æ","Ç","È","É","Ê","Ë","Ì",
                  "Í","Î","Ï","Ð","Ñ","Ò","Ó","Ô","Õ","Ö","Ø","Ù","Ú",
                  "Û","Ü","Ý","Þ">>
LowerLetters == <<"a","b","c","d","e","f","g","h","i","j","k","l","m",
                  "n","o","p","q","r","s","t","u","v","w","x","y","z",
                  "à","á","â","ã","ä","å","æ","ç","è","é","ê","ë","ì",
                  "í","î","ï","ð","ñ","ò","ó","ô","õ","ö","ø","ù","ú",
                  "û","ü","ý","þ">>
\* the characters of the alphabet that the regular expression class \d
\* matches and int() reads: the decimal digits of Unicode below U+0100 are
\* 0 to 9
DigitChars == <<"0","1","2","3","4","5","6","7","8","9">>

IsDigit(c) == \E d \in DOMAIN DigitChars : DigitChars[d] = c

\* the characters of the alphabet that str.isspace(), str.strip() and the
\* regular expression class \s take for whitespace: tab, line feed, vertical
\* tab, form feed, carriage return, the separators 1C to 1F, the blank, next
\* line (85) and the no-break space (A0)
SpaceChars == {"\t", "\n", "", "\f", "\r", "", "", "", "", " ", "", " "}

IsSpace(c) == c \in SpaceChars

LowerChar(c) ==
  IF \E i \in DOMAIN UpperLetters : UpperLetters[i] = c
  THEN LowerLetters[CHOOSE i \in DOMAIN UpperLetters : UpperLetters[i] = c]
  ELSE c

\* str.lower()
lower(str) == With(str, LAMBDA s : [i \in 1..Len(s) |-> LowerChar(s[i])])

\* str.strip()
strip(str) ==
  With(str, LAMBDA s :
    With({i \in 1..Len(s) : ~IsSpace(s[i])}, LAMBDA keep :
      IF keep = {} THEN <<>> ELSE SubSeq(s, SetMin(keep), SetMax(keep))))

DigitVal(c) == (CHOOSE d \in DOMAIN DigitChars : DigitChars[d] = c) - 1

\* int(<digits>)
RECURSIVE int(_)
int(digits) ==
  With(digits, LAMBDA ds :
    IF ds = <<>> THEN 0
    ELSE int(SubSeq(ds, 1, Len(ds) - 1)) * 10 + DigitVal(ds[Len(ds)]))

\* s has the literal lit at index i
HasAt(s, i, lit) ==
  /\ i + Len(lit) - 1 <= Len(s)
  /\ \A k \in 1..Len(lit) : s[i + k - 1] = lit[k]

\* sub in s  (Python's substring test)
Contains(str, sub) ==
  With(str, LAMBDA s : \E i \in 1..(Len(s) + 1) : HasAt(s, i, sub))

\* s.startswith(p)
startswith(s, p) == HasAt(s, 1, p)

\* the index after the longest run of digits (of whitespace) that starts at i
DigitRunEnd(s, i) ==
  CHOOSE j \in i..(Len(s) + 1) :
    /\ \A k \in i..(j - 1) : IsDigit(s[k])
    /\ (j = Len(s) + 1 \/ ~IsDigit(s[j]))
SpaceRunEnd(s, i) ==
  CHOOSE j \in i..(Len(s) + 1) :
    /\ \A k \in i..(j - 1) : IsSpace(s[k])
    /\ (j = Len(s) + 1 \/ ~IsSpace(s[j]))

(***************************************************************************)
(* The regular expressions of the source.  A pattern is a sequence of      *)
(* alternatives (a|b), an alternative a sequence of elements: a literal,   *)
(* \d+, \s*, \s+ or an optional character (x?).  MatchFrom is the index    *)
(* after the match of elements k.. of alt at index i of s, 0 when there is *)
(* none (no pattern of the source matches the empty string).               *)
(***************************************************************************)
Lit(s) == [t |-> "lit", s |-> s]
Digits1 == [t |-> "d+", s |-> <<>>]
Space0 == [t |-> "s*", s |-> <<>>]
Space1 == [t |-> "s+", s |-> <<>>]
Opt(c) == [t |-> "opt", s |-> <<c>>]

RECURSIVE MatchFrom(_, _, _, _)
MatchFrom(alt, k, s, i) ==
  IF k > Len(alt) THEN i
  ELSE LET e == alt[k] IN
    CASE e.t = "lit" ->
           IF HasAt(s, i, e.s) THEN MatchFrom(alt, k + 1, s, i + Len(e.s)) ELSE 0
      [] e.t = "d+" ->
           LET j == DigitRunEnd(s, i)
           IN IF j > i THEN MatchFrom(alt, k + 1, s, j) ELSE 0
      [] e.t = "s*" -> MatchFrom(alt, k + 1, s, SpaceRunEnd(s, i))
      [] e.t = "s+" ->
           LET j == SpaceRunEnd(s, i)
           IN IF j > i THEN MatchFrom(alt, k + 1, s, j) ELSE 0
      [] e.t = "opt" ->
           LET with == IF HasAt(s, i, e.s) THEN MatchFrom(alt, k + 1, s, i + 1) ELSE 0
           IN IF with # 0 THEN with ELSE MatchFrom(alt, k + 1, s, i)

\* the end of the match of pat at index i: the first alternative that matches
MatchAt(pat, str, i) ==
  With(str, LAMBDA s :
    With({a \in DOMAIN pat : MatchFrom(pat[a], 1, s, i) # 0}, LAMBDA hits :
      IF hits = {} THEN 0 ELSE MatchFrom(pat[SetMin(hits)], 1, s, i)))

\* re.search(pat, s): the start of the leftmost match, 0 when there is none
search(pat, str) ==
  With(str, LAMBDA s :
    With({i \in 1..Len(s) : MatchAt(pat, s, i) # 0}, LAMBDA starts :
      IF starts = {} THEN 0 ELSE SetMin(starts)))

\* match.group(1) of a pattern whose alternatives all begin with (\d+)
group1(str, m) ==
  With(<<str, m>>, LAMBDA a : SubSeq(a[1], a[2], DigitRunEnd(a[1], a[2]) - 1))

\* re.sub(pat, '', s)
RECURSIVE SubFrom(_, _, _)
SubFrom(pat, s, i) ==
  IF i > Len(s) THEN <<>>
  ELSE With(MatchAt(pat, s, i), LAMBDA e :
         IF e # 0 THEN SubFrom(pat, s, e) ELSE <<s[i]>> \o SubFrom(pat, s, i + 1))
sub(pat, str) == With(str, LAMBDA s : SubFrom(pat, s, 1))

\* re.split(pat, s)
RECURSIVE SplitFrom(_, _, _, _)
SplitFrom(pat, s, i, cur) ==
  IF i > Len(s) THEN <<cur>>
  ELSE With(MatchAt(pat, s, i), LAMBDA e :
         IF e # 0 THEN <<cur>> \o SplitFrom(pat, s, e, <<>>)
         ELSE SplitFrom(pat, s, i + 1, Append(cur, s[i])))
split(pat, str) == With(str, LAMBDA s : SplitFrom(pat, s, 1, <<>>))

\* sep.join(names)
RECURSIVE join(_, _)
join(sep, iterable) ==
  With(iterable, LAMBDA names :
    IF names = <<>> THEN <<>>
    ELSE IF Len(names) = 1 THEN names[1]
    ELSE names[1] \o sep \o join(sep, Tail(names)))

(***************************************************************************)
(* Pattern Extractor: NutritionAPI.parse_food_message                      *)
(***************************************************************************)
\* r'^(i just ate|i ate|ate|just ate)\s+'
prefix_pattern ==
  << <<Lit(<<"i"," ","j","u","s","t"," ","a","t","e">>), Space1>>, <<Lit(<<"i"," ","a","t","e">>), Space1>>,
     <<Lit(<<"a","t","e">>), Space1>>, <<Lit(<<"j","u","s","t"," ","a","t","e">>), Space1>> >>

\* r'(\d+)\s*cals?'
calorie_pattern == << <<Digits1, Space0, Lit(<<"c","a","l">>), Opt("s")>> >>

\* r'\(\d+\s*cals?\)'
paren_calorie_pattern ==
  << <<Lit(<<"(">>), Digits1, Space0, Lit(<<"c","a","l">>), Opt("s"), Lit(<<")">>)>> >>

\* r'\s+and\s+|\s*&\s*'
separator_pattern ==
  << <<Space1, Lit(<<"a","n","d">>), Space1>>, <<Space0, Lit(<<"&">>), Space0>> >>

\* the ordered list quantity_patterns
quantity_patterns ==
  << << <<Digits1, Lit(<<"-","p","i","e","c","e">>)>> >>,
     << <<Digits1, Space1, Lit(<<"p","i","e","c","e">>)>> >>,
     << <<Digits1, Space1, Lit(<<"c","u","p">>), Opt("s")>> >>,
     << <<Digits1, Space1, Lit(<<"s","e","r","v","i","n","g">>), Opt("s")>> >>,
     << <<Digits1, Space1, Lit(<<"g","r","a","m">>), Opt("s")>> >>,
     << <<Digits1, Space1, Lit(<<"o","z">>)>> >>,
     << <<Digits1, Space1, Lit(<<"m","e","d","i","u","m">>)>> >>,
     << <<Digits1, Space1, Lit(<<"l","a","r","g","e">>)>> >>,
     << <<Digits1, Space1, Lit(<<"s","m","a","l","l">>)>> >> >>

\* re.sub(r'^(...)\s+', '', s): anchored, so at most one removal, at index 1
\* a parser that leaves the consumption phrase in place
KeepPrefix(str) == str

strip_prefix(str) ==
  With(str, LAMBDA s :
    With(MatchAt(prefix_pattern, s, 1), LAMBDA e :
      IF e # 0 THEN SubSeq(s, e, Len(s)) ELSE s))

\* an extraction that takes the leftmost quantity of the text
LeftmostQuantity(message) ==
  With(message, LAMBDA text :
    With({k \in DOMAIN quantity_patterns : search(quantity_patterns[k], text) # 0},
         LAMBDA hits :
      IF hits = {} THEN [quantity |-> 1, food_name |-> text]
      ELSE With(quantity_patterns[CHOOSE k \in hits : \A j \in hits :
                                    search(quantity_patterns[k], text)
                                      <= search(quantity_patterns[j], text)],
                LAMBDA pat :
             [quantity |-> int(group1(text, search(pat, text))),
              food_name |-> strip(sub(pat, text))])))

\* the loop over quantity_patterns: the first pattern that matches anywhere in
\* text gives the quantity, and every match of that pattern is removed
extract_quantity(message) ==
  With(message, LAMBDA text :
    With({k \in DOMAIN quantity_patterns : search(quantity_patterns[k], text) # 0},
         LAMBDA hits :
      IF hits = {} THEN [quantity |-> 1, food_name |-> text]
      ELSE With(quantity_patterns[SetMin(hits)], LAMBDA pat :
             [quantity |-> int(group1(text, search(pat, text))),
              food_name |-> strip(sub(pat, text))])))

\* the stripped, non-empty parts of the message, in order
RECURSIVE strip_parts(_)
strip_parts(pieces) ==
  With(pieces, LAMBDA parts :
    IF parts = <<>> THEN <<>>
    ELSE With(strip(Head(parts)), LAMBDA part :
           IF part = <<>> THEN strip_parts(Tail(parts))
           ELSE <<part>> \o strip_parts(Tail(parts))))

RECURSIVE calorie_items(_)
calorie_items(pieces) ==
  With(pieces, LAMBDA parts :
    IF parts = <<>> THEN <<>>
    ELSE With(Head(parts), LAMBDA part :
           With(search(calorie_pattern, part), LAMBDA m :
             IF m = 0 THEN calorie_items(Tail(parts))
             ELSE << [food_name |-> strip(sub(calorie_pattern,
                                              strip(sub(paren_calorie_pattern, part)))),
                      calories |-> int(group1(part, m)),
                      quantity |-> 1] >> \o calorie_items(Tail(parts)))))

RECURSIVE sum_calories(_)
sum_calories(food_items) ==
  With(food_items, LAMBDA items :
    IF items = <<>> THEN 0 ELSE Head(items).calories + sum_calories(Tail(items)))

item_names(food_items) ==
  With(food_items, LAMBDA items : [i \in 1..Len(items) |-> items[i].food_name])

parse_with_calories(message) ==
  With(calorie_items(strip_parts(split(separator_pattern, message))), LAMBDA items :
    [food_name |-> join(<<" ","+"," ">>, item_names(items)),
     quantity |-> Len(items),
     original_message |-> message,
     total_calories |-> Some(sum_calories(items)),
     items |-> items])

\* a parser whose quantity is the quantity of the first item
FirstItemQuantity(message) ==
  With(strip_parts(split(separator_pattern, message)), LAMBDA parts :
    With([i \in 1..Len(parts) |-> extract_quantity(parts[i])], LAMBDA items :
      [food_name |-> join(<<" ","+"," ">>, item_names(items)),
       quantity |-> items[1].quantity,
       original_message |-> message,
       total_calories |-> None,
       items |-> items]))

\* a parser whose quantity adds up the quantities of the items
SumQuantities(message) ==
  With(strip_parts(split(separator_pattern, message)), LAMBDA parts :
    With([i \in 1..Len(parts) |-> extract_quantity(parts[i])], LAMBDA items :
      [food_name |-> join(<<" ","+"," ">>, item_names(items)),
       quantity |-> items[1].quantity + (IF Len(items) > 1 THEN items[2].quantity ELSE 0),
       original_message |-> message,
       total_calories |-> None,
       items |-> items]))

parse_multiple_items(message) ==
  With(strip_parts(split(separator_pattern, message)), LAMBDA parts :
    With([i \in 1..Len(parts) |-> extract_quantity(parts[i])], LAMBDA items :
      [food_name |-> join(<<" ","+"," ">>, item_names(items)),
       quantity |-> Len(items),
       original_message |-> message,
       total_calories |-> None,
       items |-> items]))

parse_food_message(text) ==
  With(strip_prefix(lower(text)), LAMBDA message :
    IF search(calorie_pattern, message) # 0 THEN parse_with_calories(message)
    ELSE IF Contains(message, <<" ","a","n","d"," ">>) \/ Contains(message, <<" ","&"," ">>)
         THEN parse_multiple_items(message)
    ELSE With(extract_quantity(message), LAMBDA q :
           [food_name |-> q.food_name,
            quantity |-> q.quantity,
            original_message |-> message,
            total_calories |-> None]))

(***************************************************************************)
(* Numbers of a nutrition dict.  Python keeps 2.7 as the IEEE double       *)
(* nearest to 27/10, and `x *= quantity` rounds the product to a double:   *)
(* 2.7 * 3 is 8.100000000000001, one unit in the last place above the      *)
(* double nearest to 8.1, and 0.3 * 3 is 0.8999999999999999, one below.    *)
(* A number is kept as t * Grain + d: t is the decimal in tenths and d the *)
(* number of doubles by which the double lies above (d > 0) or below the   *)
(* double nearest to t/10, with |d| < Grain / 2.  Tenths(27) is 2.7,       *)
(* Num(n) is the integer n, Tenths(81) + 1 is 8.100000000000001 and        *)
(* Tenths(5) - 1 is 0.49999999999999994.                                   *)
(***************************************************************************)
Grain == 1000

Tenths(t) == t * Grain

Num(n) == Tenths(n * 10)

\* the decimal, in tenths, that the double x lies next to
DecimalOf(x) == (x + (Grain \div 2)) \div Grain

\* the number of doubles between x and the double nearest its decimal
DeviationOf(x) == x - Tenths(DecimalOf(x))

RECURSIVE Pow2(_)
Pow2(n) == IF n = 0 THEN 1 ELSE 2 * Pow2(n - 1)

\* the last decimal digit of 2^n
Pow2Mod10(n) == IF n = 0 THEN 1 ELSE <<2, 4, 8, 6>>[((n - 1) % 4) + 1]

\* the binary exponent of v/10 for v >= 1 (so that v/10 >= 2^-4): the largest
\* e with 2^e <= v/10, searched upwards from e
RECURSIVE exponent_from(_, _)
exponent_from(v, e) ==
  IF (IF e + 1 >= 0 THEN 10 * Pow2(e + 1) <= v ELSE 10 <= v * Pow2(-(e + 1)))
  THEN exponent_from(v, e + 1)
  ELSE e

Exponent(v) == exponent_from(v, -4)

\* n/d rounded to the nearest integer, a tie going to the integer whose
\* sum with `parity` is even (round-half-even on the significand)
RoundHalfEven(n, d, parity) ==
  With(n \div d, LAMBDA fl :
    IF 2 * (n - fl * d) < d THEN fl
    ELSE IF 2 * (n - fl * d) > d THEN fl + 1
    ELSE IF (parity + fl) % 2 = 0 THEN fl ELSE fl + 1)

\* v/10 is a power of two (0.5, 1, 2, 4, ...): the doubles below it lie half
\* as far apart as the doubles above it
RECURSIVE is_pow2(_)
is_pow2(n) == n = 1 \/ (n > 1 /\ n % 2 = 0 /\ is_pow2(n \div 2))

IsPowerOfTwo(v) == v = 5 \/ (v % 10 = 0 /\ is_pow2(v \div 10))

\* The double product x * q for the double x that lies d0 doubles from the
\* double nearest v/10 (v >= 1, q >= 1): the number of doubles by which it
\* differs from the double nearest v*q/10.  With a 53-bit significand
\* M * 2^-k (k = 52 - Exponent(v)) the double nearest v/10 has
\* 10 * M = v * 2^k - r + 10 * c, where r is the last digit of v * 2^k and
\* c = 1 when the division rounds up; r2, c2 are the same for v * q, whose
\* doubles lie 2^s times as far apart.  In twentieths of the distance between
\* the doubles at v/10, x lies a = 2 * (10*c - r) + 20 * d0 above v/10 (with
\* 10 * d0 for the doubles below a power of two), so the exact product lies
\* (q * a - 2 * (10*c2 - r2) * 2^s) / (20 * 2^s) doubles from the double
\* nearest v*q/10, and twice as many when it falls below a power of two.  It
\* is rounded to the nearest double, a tie to the even significand.
ProductDeviation(v, d0, q) ==
  With(Exponent(v), LAMBDA e :
  With(52 - e, LAMBDA k :
  With(Exponent(v * q) - e, LAMBDA s :
  With(((v % 10) * Pow2Mod10(k)) % 10, LAMBDA r :
  With((((v * q) % 10) * Pow2Mod10(k - s)) % 10, LAMBDA r2 :
  With(IF r > 5 THEN 1 ELSE 0, LAMBDA c :
  With(IF r2 > 5 THEN 1 ELSE 0, LAMBDA c2 :
  With(2 * ((((v * q) % 10) * Pow2Mod10(k - s - 1)) % 10), LAMBDA a20 :
  With(q * (2 * (10 * c - r) + (IF IsPowerOfTwo(v) /\ d0 < 0 THEN 10 * d0 ELSE 20 * d0))
         - 2 * (10 * c2 - r2) * Pow2(s), LAMBDA n :
    IF IsPowerOfTwo(v * q)
    THEN IF n < 0 THEN RoundHalfEven(n, 10 * Pow2(s), 0)
         ELSE RoundHalfEven(n, 20 * Pow2(s), 0)
    ELSE RoundHalfEven(n, 20 * Pow2(s),
                       ((((a20 - r2) % 20) \div 10) + c2) % 2))))))))))

\* float.__mul__ with an int: x * quantity.  Next to zero the doubles are
\* evenly spaced and the product is exact.
Times(x, q) ==
  IF q = 0 THEN 0
  ELSE IF DecimalOf(x) = 0 THEN x * q
  ELSE Tenths(DecimalOf(x) * q) + ProductDeviation(DecimalOf(x), DeviationOf(x), q)

(***************************************************************************)
(* AIFoodParser._fallback_parse                                            *)
(***************************************************************************)
\* r'(\d+)-piece|(\d+)\s+piece'
fallback_quantity_pattern ==
  << <<Digits1, Lit(<<"-","p","i","e","c","e">>)>>, <<Digits1, Space1, Lit(<<"p","i","e","c","e">>)>> >>

\* r'(\d+)\s*cals?|(\d+)-piece|(\d+)\s+piece'
fallback_clean_pattern ==
  << <<Digits1, Space0, Lit(<<"c","a","l">>), Opt("s")>>,
     <<Digits1, Lit(<<"-","p","i","e","c","e">>)>>, <<Digits1, Space1, Lit(<<"p","i","e","c","e">>)>> >>

fallback_parse(text) ==
  With(lower(text), LAMBDA message :
    With(<<search(calorie_pattern, message),
           search(fallback_quantity_pattern, message),
           strip_prefix(strip(sub(fallback_clean_pattern, message)))>>, LAMBDA m :
      [food_name |-> m[3],
       quantity |-> IF m[2] # 0 THEN int(group1(message, m[2])) ELSE 1,
       original_message |-> message,
       nutrition_data |-> Some([name |-> m[3],
                                calories |-> IF m[1] # 0
                                             THEN Num(int(group1(message, m[1]))) ELSE 0,
                                carbs |-> 0, proteins |-> 0, fats |-> 0,
                                source |-> "Fallback", confidence |-> "low"]),
       confidence |-> "low"]))

(***************************************************************************)
(* Nutrition dicts.  Keys that no code of the pipeline reads back          *)
(* (serving_size, note, notes) are left out.                               *)
(***************************************************************************)
Fields == {"calories", "carbs", "proteins", "fats"}

\* Python truthiness of an Optional[dict] (no stage returns an empty dict)
Truthy(d) == d # None

(***************************************************************************)
(* Estimate Table: NutritionWebScraper.get_estimated_nutrition             *)
(***************************************************************************)
food_estimates ==
  <<
     [key |-> <<"r","i","c","e">>, calories |-> Tenths(1300), carbs |-> Tenths(280), proteins |-> Tenths(27), fats |-> Tenths(3)],
     [key |-> <<"c","h","i","c","k","e","n">>, calories |-> Tenths(1650), carbs |-> 0, proteins |-> Tenths(310), fats |-> Tenths(36)],
     [key |-> <<"d","a","l">>, calories |-> Tenths(1160), carbs |-> Tenths(200), proteins |-> Tenths(90), fats |-> Tenths(4)],
     [key |-> <<"r","o","t","i">>, calories |-> Tenths(2640), carbs |-> Tenths(460), proteins |-> Tenths(80), fats |-> Tenths(42)],
     [key |-> <<"s","u","b","z","i">>, calories |-> Tenths(500), carbs |-> Tenths(100), proteins |-> Tenths(20), fats |-> Tenths(5)],
     [key |-> <<"b","r","e","a","d">>, calories |-> Tenths(2650), carbs |-> Tenths(490), proteins |-> Tenths(90), fats |-> Tenths(32)],
     [key |-> <<"m","i","l","k">>, calories |-> Tenths(420), carbs |-> Tenths(50), proteins |-> Tenths(34), fats |-> Tenths(10)],
     [key |-> <<"e","g","g">>, calories |-> Tenths(1550), carbs |-> Tenths(11), proteins |-> Tenths(130), fats |-> Tenths(110)],
     [key |-> <<"b","a","n","a","n","a">>, calories |-> Tenths(890), carbs |-> Tenths(230), proteins |-> Tenths(11), fats |-> Tenths(3)],
     [key |-> <<"a","p","p","l","e">>, calories |-> Tenths(520), carbs |-> Tenths(140), proteins |-> Tenths(3), fats |-> Tenths(2)],
     [key |-> <<"p","o","t","a","t","o">>, calories |-> Tenths(770), carbs |-> Tenths(170), proteins |-> Tenths(20), fats |-> Tenths(1)],
     [key |-> <<"t","o","m","a","t","o">>, calories |-> Tenths(180), carbs |-> Tenths(39), proteins |-> Tenths(9), fats |-> Tenths(2)],
     [key |-> <<"o","n","i","o","n">>, calories |-> Tenths(400), carbs |-> Tenths(93), proteins |-> Tenths(11), fats |-> Tenths(1)],
     [key |-> <<"c","a","r","r","o","t">>, calories |-> Tenths(410), carbs |-> Tenths(100), proteins |-> Tenths(9), fats |-> Tenths(2)],
     [key |-> <<"s","p","i","n","a","c","h">>, calories |-> Tenths(230), carbs |-> Tenths(36), proteins |-> Tenths(29), fats |-> Tenths(4)],
     [key |-> <<"y","o","g","u","r","t">>, calories |-> Tenths(590), carbs |-> Tenths(36), proteins |-> Tenths(100), fats |-> Tenths(4)],
     [key |-> <<"c","h","e","e","s","e">>, calories |-> Tenths(1130), carbs |-> Tenths(4), proteins |-> Tenths(70), fats |-> Tenths(90)],
     [key |-> <<"f","i","s","h">>, calories |-> Tenths(840), carbs |-> 0, proteins |-> Tenths(200), fats |-> Tenths(5)],
     [key |-> <<"b","e","e","f">>, calories |-> Tenths(2500), carbs |-> 0, proteins |-> Tenths(260), fats |-> Tenths(150)],
     [key |-> <<"p","o","r","k">>, calories |-> Tenths(2420), carbs |-> 0, proteins |-> Tenths(270), fats |-> Tenths(140)]
  >>

\* an Estimate Table in which the last key that occurs wins
LastKeyWins(food_name) ==
  With({k \in DOMAIN food_estimates : Contains(lower(food_name), food_estimates[k].key)},
       LAMBDA hits :
    IF hits = {} THEN None
    ELSE With(food_estimates[SetMax(hits)], LAMBDA nutrition :
           Some([name |-> food_name,
                 calories |-> nutrition.calories, carbs |-> nutrition.carbs,
                 proteins |-> nutrition.proteins, fats |-> nutrition.fats,
                 source |-> "Estimated"])))

\* an Estimate Table read as per 50 g: every value doubled
EstimateDoubled(food_name) ==
  With({k \in DOMAIN food_estimates : Contains(lower(food_name), food_estimates[k].key)},
       LAMBDA hits :
    IF hits = {} THEN None
    ELSE With(food_estimates[SetMin(hits)], LAMBDA nutrition :
           Some([name |-> food_name,
                 calories |-> Times(nutrition.calories, 2), carbs |-> Times(nutrition.carbs, 2),
                 proteins |-> Times(nutrition.proteins, 2), fats |-> Times(nutrition.fats, 2),
                 source |-> "Estimated"])))

get_estimated_nutrition(food_name) ==
  With(lower(food_name), LAMBDA food_lower :
    With({k \in DOMAIN food_estimates : Contains(food_lower, food_estimates[k].key)},
         LAMBDA hits :
      IF hits = {} THEN None
      ELSE With(food_estimates[SetMin(hits)], LAMBDA nutrition :
             Some([name |-> food_name,
                   calories |-> nutrition.calories, carbs |-> nutrition.carbs,
                   proteins |-> nutrition.proteins, fats |-> nutrition.fats,
                   source |-> "Estimated"]))))

(***************************************************************************)
(* Nutrition Source Clients.  The reply of a remote endpoint is an input:  *)
(* [kind |-> "error"] stands for a timeout, a non-2xx status or a body the *)
(* code cannot read (every one of them raises inside the client's try),    *)
(* [kind |-> "empty"] for a well-formed reply without a hit, and           *)
(* [kind |-> "hit", found |-> S, values |-> v] for a first hit that        *)
(* carries the keys S with the values v[k], k \in S; the key "name" is the *)
(* hit's own name of the food (description, food_name).                    *)
(***************************************************************************)
\* reply_dict.get(key, default)
Field(reply, key, default) ==
  IF key \in reply.found THEN reply.values[key] ELSE default

\* a search_usda_food that returns nothing for a hit without nutrients
AbsentWithoutNutrients(food_name, usda_api_key, reply) ==
  IF ~usda_api_key THEN None
  ELSE IF reply.kind # "hit" THEN None
  ELSE IF reply.found \cap {"calories", "carbs", "proteins", "fats"} = {} THEN None
  ELSE Some([name |-> Field(reply, "name", food_name),
             calories |-> Field(reply, "calories", 0),
             carbs |-> Field(reply, "carbs", 0),
             proteins |-> Field(reply, "proteins", 0),
             fats |-> Field(reply, "fats", 0),
             source |-> "USDA"])

\* NutritionAPI.search_usda_food
search_usda_food(food_name, usda_api_key, reply) ==
  IF ~usda_api_key THEN None
  ELSE IF reply.kind # "hit" THEN None
  ELSE Some([name |-> Field(reply, "name", food_name),
             calories |-> Field(reply, "calories", 0),
             carbs |-> Field(reply, "carbs", 0),
             proteins |-> Field(reply, "proteins", 0),
             fats |-> Field(reply, "fats", 0),
             source |-> "USDA"])

\* the remote call of search_usda_food, with its reply and what was made of it
usda_calls(food_name, usda_api_key, reply) ==
  IF usda_api_key
  THEN << [stage |-> "usda_search", reply |-> reply,
           result |-> search_usda_food(food_name, usda_api_key, reply)] >>
  ELSE <<>>

\* a search_usda_food that asks again after a failure
RetryUSDA(usda_api_key) ==
  IF usda_api_key THEN <<"usda_search", "usda_search">> ELSE <<>>

\* the remote requests search_usda_food issues
usda_requests(usda_api_key) ==
  IF usda_api_key THEN <<"usda_search">> ELSE <<>>

\* NutritionAPI.get_nutritionix_nutrition
get_nutritionix_nutrition(food_name, reply) ==
  IF reply.kind # "hit" THEN None
  ELSE Some([name |-> Field(reply, "name", food_name),
             calories |-> Field(reply, "calories", 0),
             carbs |-> Field(reply, "carbs", 0),
             proteins |-> Field(reply, "proteins", 0),
             fats |-> Field(reply, "fats", 0),
             source |-> "Nutritionix"])

\* a search_nutritionix that prefers the branded hits
BrandedFirst(food_name, instant) ==
  IF instant.kind # "json" THEN None
  ELSE IF instant.branded # <<>>
  THEN Some(IF "food_name" \in instant.branded[1].keys
            THEN instant.branded[1].food_name ELSE food_name)
  ELSE IF instant.common # <<>>
  THEN Some(IF "food_name" \in instant.common[1].keys
            THEN instant.common[1].food_name ELSE food_name)
  ELSE None

\* the food_item search_nutritionix picks from the instant search's reply:
\* data["common"][0] if common is not empty, else data["branded"][0]; None
\* when the request raised or both lists are empty
food_item(instant) ==
  IF instant.kind # "json" THEN None
  ELSE IF instant.common # <<>> THEN Some(instant.common[1])
  ELSE IF instant.branded # <<>> THEN Some(instant.branded[1])
  ELSE None

\* the query of the nutrients call, food_item.get("food_name", food_name);
\* None when no call is made (`if food_item:` is false for an empty dict too)
nutrients_query(food_name, instant) ==
  With(food_item(instant), LAMBDA item :
    IF item = None \/ item[1].keys = {} THEN None
    ELSE Some(IF "food_name" \in item[1].keys THEN item[1].food_name ELSE food_name))

\* NutritionAPI.search_nutritionix: the instant search, then the nutrients call
search_nutritionix(food_name, credentials, instant, nutrients) ==
  IF ~credentials THEN None
  ELSE With(nutrients_query(food_name, instant), LAMBDA query :
         IF query = None THEN None
         ELSE get_nutritionix_nutrition(query[1], nutrients))

\* the two remote calls of search_nutritionix: the instant search with its
\* reply and the food_item picked from it, then get_nutritionix_nutrition
\* with its query, its reply and what it returned
nutritionix_calls(food_name, credentials, instant, nutrients) ==
  IF ~credentials THEN <<>>
  ELSE With(nutrients_query(food_name, instant), LAMBDA query :
         << [stage |-> "instant_search", reply |-> instant,
             result |-> food_item(instant)] >> \o
         (IF query = None THEN <<>>
          ELSE << [stage |-> "get_nutritionix_nutrition", query |-> query[1],
                   reply |-> nutrients,
                   result |-> get_nutritionix_nutrition(query[1], nutrients)] >>))

\* a search_nutritionix that asks the instant search without credentials
AskWithoutCredentials(food_name, credentials, instant) ==
  IF nutrients_query(food_name, instant) = None THEN <<"nutritionix_instant">>
  ELSE <<"nutritionix_instant", "nutritionix_nutrients">>

\* the remote requests search_nutritionix issues
nutritionix_requests(food_name, credentials, instant) ==
  IF ~credentials THEN <<>>
  ELSE IF nutrients_query(food_name, instant) = None THEN <<"nutritionix_instant">>
  ELSE <<"nutritionix_instant", "nutritionix_nutrients">>

\* NutritionWebScraper.search_fatsecret / search_myfitnesspal: nutrition_data
\* holds exactly the fields the page's text gave, and is returned (with name
\* and source added) if it is not empty
scrape_page(food_name, reply, site) ==
  IF reply.kind # "hit" THEN None
  ELSE IF reply.found \cap Fields = {} THEN None
  ELSE Some([k \in (reply.found \cap Fields) \cup {"name", "source"} |->
               IF k = "name" THEN food_name
               ELSE IF k = "source" THEN site
               ELSE reply.values[k]])

search_fatsecret(food_name, reply) == scrape_page(food_name, reply, "FatSecret")
search_myfitnesspal(food_name, reply) == scrape_page(food_name, reply, "MyFitnessPal")

\* NutritionWebScraper.search_generic_nutrition: the sources in order, the
\* first truthy result wins
search_generic_nutrition(food_name, fs_reply, mfp_reply) ==
  With(search_fatsecret(food_name, fs_reply), LAMBDA first :
    IF Truthy(first) THEN first ELSE search_myfitnesspal(food_name, mfp_reply))

\* the calls search_generic_nutrition makes, with what each returned
generic_calls(food_name, fs_reply, mfp_reply) ==
  With(search_fatsecret(food_name, fs_reply), LAMBDA first :
    IF Truthy(first) THEN << [stage |-> "FatSecret", result |-> first] >>
    ELSE << [stage |-> "FatSecret", result |-> first],
            [stage |-> "MyFitnessPal",
             result |-> search_myfitnesspal(food_name, mfp_reply)] >>)

\* the pages search_generic_nutrition requests: the FatSecret search page, its
\* detail page when the search page had a result link, then MyFitnessPal's
generic_requests(food_name, fs_reply, mfp_reply) ==
  LET fs == IF fs_reply.kind \in {"hit", "detail_error"}
            THEN <<"fatsecret_search", "fatsecret_detail">>
            ELSE <<"fatsecret_search">>
  IN IF Truthy(search_fatsecret(food_name, fs_reply)) THEN fs
     ELSE fs \o <<"myfitnesspal_search">>

(***************************************************************************)
(* NutritionAPI.get_food_nutrition                                         *)
(***************************************************************************)
\* a get_food_nutrition that never answers from the user's own calories
IgnoreTotalCalories(parsed) == FALSE

\* `if parsed_food.get("total_calories")`: neither None nor 0
has_total_calories(parsed) ==
  parsed.total_calories # None /\ parsed.total_calories[1] # 0

user_provided(parsed) ==
  [name |-> parsed.food_name,
   calories |-> Num(parsed.total_calories[1]),
   carbs |-> 0, proteins |-> 0, fats |-> 0,
   source |-> "User Provided"]

\* a chain that runs every stage whatever the earlier ones returned
AlwaysTry(data) == TRUE

\* `if not nutrition_data:` before each later stage
should_try(data) == ~Truthy(data)

\* the order of the four in-place multiplications
scale_order == <<"calories", "carbs", "proteins", "fats">>

\* `nutrition_data[k] *= quantity` for the keys from index i on; a missing key
\* raises KeyError and leaves the keys before it multiplied
RECURSIVE multiply_from(_, _, _)
multiply_from(data, quantity, i) ==
  IF i > Len(scale_order) THEN [raised |-> FALSE, data |-> data]
  ELSE IF scale_order[i] \notin DOMAIN data THEN [raised |-> TRUE, data |-> data]
  ELSE multiply_from([data EXCEPT ![scale_order[i]] = Times(@, quantity)], quantity, i + 1)

\* a multiplier that is applied a second time
ScaleTwice(data, quantity) ==
  multiply_from(multiply_from(data, quantity, 1).data, quantity, 1)

apply_quantity(data, quantity) == multiply_from(data, quantity, 1)

(***************************************************************************)
(* AIFoodParser (AI mode).  The language model's reply is an input:        *)
(* [kind |-> "raise"] when the call raises, [kind |-> "no_json"] when the  *)
(* text holds no parseable {...} object, and                               *)
(* [kind |-> "json", found |-> S, values |-> v] for an object with keys S. *)
(***************************************************************************)
\* a _parse_ai_response that multiplies the model's numbers by its quantity
ScaledAIResponse(reply, original_message) ==
  IF reply.kind # "json" THEN fallback_parse(original_message)
  ELSE [food_name |-> Field(reply, "food_name", <<"U","n","k","n","o","w","n"," ","F","o","o","d">>),
        quantity |-> Field(reply, "quantity", 1),
        unit |-> Field(reply, "unit", "serving"),
        original_message |-> original_message,
        nutrition_data |->
          Some([name |-> Field(reply, "food_name", <<"U","n","k","n","o","w","n"," ","F","o","o","d">>),
                calories |-> Times(Field(reply, "calories", 0), Field(reply, "quantity", 1)),
                carbs |-> Times(Field(reply, "carbs", 0), Field(reply, "quantity", 1)),
                proteins |-> Times(Field(reply, "proteins", 0), Field(reply, "quantity", 1)),
                fats |-> Times(Field(reply, "fats", 0), Field(reply, "quantity", 1)),
                source |-> "AI Analysis",
                confidence |-> Field(reply, "confidence", "low")]),
        confidence |-> Field(reply, "confidence", "low")]

\* a parser that salvages the calories of a reply it cannot decode
SalvageAIResponse(reply, original_message) ==
  IF reply.kind \in {"json", "malformed"}
  THEN [fallback_parse(original_message) EXCEPT
          !.nutrition_data = Some([@[1] EXCEPT !.calories = Field(reply, "calories", 0)])]
  ELSE fallback_parse(original_message)

\* AIFoodParser._parse_ai_response: the reply is "json" when a JSON object is
\* found and decoded, "no_json" when the text holds no braces, "malformed" when
\* json.loads rejects what the braces hold
parse_ai_response(reply, original_message) ==
  IF reply.kind # "json" THEN fallback_parse(original_message)
  ELSE [food_name |-> Field(reply, "food_name", <<"U","n","k","n","o","w","n"," ","F","o","o","d">>),
        quantity |-> Field(reply, "quantity", 1),
        unit |-> Field(reply, "unit", "serving"),
        original_message |-> original_message,
        nutrition_data |->
          Some([name |-> Field(reply, "food_name", <<"U","n","k","n","o","w","n"," ","F","o","o","d">>),
                calories |-> Field(reply, "calories", 0),
                carbs |-> Field(reply, "carbs", 0),
                proteins |-> Field(reply, "proteins", 0),
                fats |-> Field(reply, "fats", 0),
                source |-> "AI Analysis",
                confidence |-> Field(reply, "confidence", "low")]),
        confidence |-> Field(reply, "confidence", "low")]

\* AIFoodParser._extract_nutrition_from_web: the second prompt's reply
extract_nutrition_from_web(food_name, bedrock_client, reply) ==
  IF ~bedrock_client THEN None
  ELSE IF reply.kind # "json" THEN None
  ELSE IF Field(reply, "calories", 0) = 0 THEN None
  ELSE Some([name |-> food_name,
             calories |-> Field(reply, "calories", 0),
             carbs |-> Field(reply, "carbs", 0),
             proteins |-> Field(reply, "proteins", 0),
             fats |-> Field(reply, "fats", 0),
             source |-> "Web Search (Exa)",
             confidence |-> Field(reply, "confidence", "medium")])

\* AIFoodParser._search_web_for_nutrition with WebSearchAPI.search: web.search
\* is "hit" when Exa returned results, web.extract is the second prompt's reply
search_web_for_nutrition(food_name, parser, web) ==
  IF ~parser.exa_api_key THEN None
  ELSE IF web.search # "hit" THEN None
  ELSE extract_nutrition_from_web(food_name, parser.bedrock_client, web.extract)

\* AIFoodParser.parse_food_with_ai
parse_food_with_ai(message, parser, reply, web) ==
  IF ~parser.bedrock_client THEN fallback_parse(message)
  ELSE IF reply.kind = "raise" THEN fallback_parse(message)
  ELSE With(parse_ai_response(reply, message), LAMBDA parsed :
         IF ~Truthy(parsed.nutrition_data)
         THEN With(search_web_for_nutrition(parsed.food_name, parser, web),
                   LAMBDA web_nutrition :
                IF Truthy(web_nutrition)
                THEN [parsed EXCEPT !.nutrition_data = web_nutrition]
                ELSE parsed)
         ELSE parsed)

\* the stages parse_food_with_ai runs, with what each produced
ai_calls(message, parser, reply, web) ==
  With(<< [stage |-> "Fallback",
           result |-> fallback_parse(message).nutrition_data] >>, LAMBDA fallback :
    IF ~parser.bedrock_client THEN fallback
    ELSE IF reply.kind # "json"
         THEN << [stage |-> "AI Analysis", result |-> None] >> \o fallback
    ELSE With(parse_ai_response(reply, message), LAMBDA parsed :
           << [stage |-> "AI Analysis", result |-> parsed.nutrition_data] >> \o
           (IF ~Truthy(parsed.nutrition_data)
            THEN << [stage |-> "Web Search",
                     result |-> search_web_for_nutrition(parsed.food_name, parser, web)] >>
            ELSE <<>>)))

(***************************************************************************)
(* Inputs.  A message is rendered from a shape: an optional consumption    *)
(* phrase, then one or two segments joined by a separator; a segment is a  *)
(* food name with at most one annotation (a calorie token or a quantity).  *)
(***************************************************************************)
RECURSIVE str(_)
str(n) ==
  IF n < 10 THEN <<DigitChars[n + 1]>>
  ELSE str(n \div 10) \o <<DigitChars[(n % 10) + 1]>>

FoodNames == {<<"r","i","c","e">>, <<"p","i","e">>}
NumVals == {0, 3, 12}
Prefixes == {<<>>, <<"I"," ","a","t","e"," ">>}
Separators == {<<" ","a","n","d"," ">>}
CalorieAnnots == {"paren_cals", "cal"}
QuantityAnnots == {"piece", "cups"}

Segments ==
  {[food |-> f, annot |-> "none", n |-> 0] : f \in FoodNames}
  \cup [food : FoodNames, annot : CalorieAnnots \cup QuantityAnnots, n : NumVals]

\* the blank between a food name and its annotation; none without a name
Gap(food) == IF food = <<>> THEN <<>> ELSE <<" ">>

RenderSegment(seg) ==
  CASE seg.annot = "none" -> seg.food
    [] seg.annot = "paren_cals" ->
         seg.food \o Gap(seg.food) \o <<"(">> \o str(seg.n) \o <<" ","c","a","l","s",")">>
    [] seg.annot = "cal" -> seg.food \o Gap(seg.food) \o str(seg.n) \o <<"c","a","l">>
    [] seg.annot = "piece" ->
         seg.food \o Gap(seg.food) \o str(seg.n) \o <<"-","p","i","e","c","e">>
    [] seg.annot = "cups" -> str(seg.n) \o <<" ","c","u","p","s">> \o Gap(seg.food) \o seg.food
    [] seg.annot = "tab_cups" ->
         str(seg.n) \o <<"\t","c","u","p","s","\t">> \o seg.food
    [] seg.annot = "cups_piece" ->
         str(seg.n) \o <<" ","c","u","p","s"," ">> \o seg.food \o <<" ">> \o
         str(seg.m) \o <<"-","p","i","e","c","e">>
    [] seg.annot = "large_cups" ->
         seg.food \o <<" ">> \o str(seg.n) \o <<" ","l","a","r","g","e"," ">> \o
         str(seg.m) \o <<" ","c","u","p","s">>
    [] seg.annot = "piece_piece" ->
         seg.food \o <<" ">> \o str(seg.n) \o <<"-","p","i","e","c","e"," ">> \o
         str(seg.m) \o <<"-","p","i","e","c","e">>

\* a single segment after any consumption phrase, or two segments (the first
\* about rice, the second about pie) joined by a separator
Shapes ==
  [prefix : Prefixes, sep : {<<>>}, segs : {<<a>> : a \in Segments}]
  \cup [prefix : {<<>>}, sep : Separators,
        segs : {<<a, b>> : a \in {x \in Segments : x.food = <<"r","i","c","e">>},
                          b \in {x \in Segments : x.food = <<"p","i","e">>}}]

\* the message of test_nutrition_api: "I just ate chicken wing 6-piece"
ExampleShapes ==
  {[prefix |-> <<"I"," ","j","u","s","t"," ","a","t","e"," ">>, sep |-> <<>>,
    segs |-> << [food |-> <<"c","h","i","c","k","e","n"," ","w","i","n","g">>,
                 annot |-> "piece", n |-> 6] >>]}

\* messages that consist of an annotation alone: "(12 cals)", "3-piece"
EmptyNameShapes ==
  {[prefix |-> <<>>, sep |-> <<>>, segs |-> << [food |-> <<>>, annot |-> a, n |-> k] >>] :
     a \in {"paren_cals", "piece"}, k \in {3, 12}}

\* messages with two quantity tokens: "4 cups rice 3-piece",
\* "rice 3 large 4 cups", "rice 4-piece 3-piece"
TwoQuantityAnnots == {"cups_piece", "large_cups", "piece_piece"}

TwoQuantityShapes ==
  {[prefix |-> <<>>, sep |-> <<>>,
    segs |-> << [food |-> <<"r","i","c","e">>, annot |-> a, n |-> k[1], m |-> k[2]] >>] :
     a \in TwoQuantityAnnots, k \in {<<3, 4>>, <<4, 3>>}}

\* messages whose blanks are tabs: "I ate\trice", "I ate\t3\tcups\trice"
WhitespaceShapes ==
  {[prefix |-> <<"I"," ","a","t","e","\t">>, sep |-> <<>>,
    segs |-> << [food |-> <<"r","i","c","e">>, annot |-> a, n |-> 3] >>] :
     a \in {"none", "tab_cups"}}

Render(sh) ==
  sh.prefix \o RenderSegment(sh.segs[1]) \o
  (IF Len(sh.segs) = 1 THEN <<>> ELSE sh.sep \o RenderSegment(sh.segs[2]))

\* one reading with every key, all values different: an integer, decimals
\* with one fractional digit, and for fats 0.49999999999999994, the double
\* next below 0.5
Reading ==
  [name |-> <<"R","i","c","e",","," ","r","a","w">>,
   calories |-> Num(200), carbs |-> Num(30), proteins |-> Tenths(27),
   fats |-> Tenths(5) - 1]

FoundSets == {DOMAIN Reading, {"calories"}, {}}

Hits == [kind : {"hit"}, found : FoundSets, values : {Reading}]
Failures == {[kind |-> "error"], [kind |-> "empty"]}
Replies == Failures \cup Hits

\* the instant search's reply: the request raised, or a JSON object with the
\* lists common and branded; a hit is a dict that may lack food_name or be
\* empty
CommonHits ==
  {<<>>,
   << [keys |-> {"food_name"}, food_name |-> <<"w","h","i","t","e"," ","r","i","c","e">>],
      [keys |-> {"food_name"}, food_name |-> <<"b","r","o","w","n"," ","r","i","c","e">>] >>,
   << [keys |-> {"tag_id"}, food_name |-> <<>>] >>,
   << [keys |-> {}, food_name |-> <<>>] >>}
BrandedHits ==
  {<<>>,
   << [keys |-> {"food_name"}, food_name |-> <<"r","i","c","e"," ","c","a","k","e","s">>] >>}
InstantReplies ==
  {[kind |-> "error"]} \cup [kind : {"json"}, common : CommonHits, branded : BrandedHits]
FatSecretReplies == Replies \cup {[kind |-> "detail_error"]}

AIReading ==
  [food_name |-> <<"w","h","i","t","e"," ","r","i","c","e">>, quantity |-> 2, unit |-> "cup",
   calories |-> Num(260), carbs |-> Num(56), proteins |-> Tenths(54), fats |-> Tenths(6),
   confidence |-> "high"]
AIFoundSets ==
  {DOMAIN AIReading, {"food_name", "quantity"}, {"quantity", "calories"}, {}}
AIReplies ==
  {[kind |-> "raise"], [kind |-> "no_json"],
   [kind |-> "malformed", found |-> DOMAIN AIReading, values |-> AIReading]}
  \cup [kind : {"json"}, found : AIFoundSets, values : {AIReading}]
WebOutcomes ==
  {[search |-> "error", extract |-> [kind |-> "no_json"]]}
  \cup [search : {"hit"},
        extract : {[kind |-> "no_json"],
                   [kind |-> "json", found |-> DOMAIN AIReading, values |-> AIReading]}]

(***************************************************************************)
(* State.                                                                  *)
(*  message, shape   the text being interpreted and how it was composed    *)
(*  api              the NutritionAPI object's credentials, None when the  *)
(*                   run drives the AI mode                                *)
(*  ai_parser        the AIFoodParser object (bedrock_client and Exa key   *)
(*                   present or not), None in structured mode              *)
(*  pc               where get_food_nutrition / parse_food_with_ai stands  *)
(*  parsed_food, nutrition_data   the locals of get_food_nutrition         *)
(*  calls            the stages invoked so far, each with what it returned *)
(*  requests         the remote requests issued so far                     *)
(*  ret              what get_food_nutrition did: returned or raised       *)
(*  ai_reply         the language model's reply parse_food_with_ai read    *)
(*  parsed_data      what parse_food_with_ai returned                      *)
(*  user_data        CalorieTrackingBot.user_data: user -> pending entry   *)
(*  notion_calls     the calls of NotionIntegration.create_food_entry      *)
(*  updates          the handler invocations: one per Telegram update      *)
(***************************************************************************)
VARIABLES message, shape, api, ai_parser, pc, parsed_food, nutrition_data,
          calls, requests, ret, ai_reply, parsed_data,
          user_data, notion_calls, updates

interp_vars == <<message, shape, api, ai_parser, pc, parsed_food, nutrition_data,
                 calls, requests, ret, ai_reply, parsed_data>>
bot_vars == <<user_data, notion_calls, updates>>
vars == <<message, shape, api, ai_parser, pc, parsed_food, nutrition_data,
          calls, requests, ret, ai_reply, parsed_data,
          user_data, notion_calls, updates>>

ApiConfigs == [usda_api_key : BOOLEAN, nutritionix : BOOLEAN]
ParserConfigs == [bedrock_client : BOOLEAN, exa_api_key : BOOLEAN]

Users == {"u1", "u2"}

BotIdle ==
  /\ user_data = [u \in Users |-> None]
  /\ notion_calls = <<>>
  /\ updates = <<>>

\* one interpretation of one message, by either object
Init ==
  /\ shape \in Shapes \cup ExampleShapes \cup EmptyNameShapes \cup TwoQuantityShapes
             \cup WhitespaceShapes
  /\ message = Render(shape)
  /\ \/ api \in {Some(c) : c \in ApiConfigs} /\ ai_parser = None
     \/ api = None /\ ai_parser \in {Some(c) : c \in ParserConfigs}
  /\ pc = "start"
  /\ parsed_food = None
  /\ nutrition_data = None
  /\ calls = <<>>
  /\ requests = <<>>
  /\ ret = None
  /\ ai_reply = None
  /\ parsed_data = None
  /\ BotIdle

\* get_food_nutrition up to the first lookup: parse, and answer from the
\* user's own calories when the message gave any
GetFoodNutrition ==
  /\ pc = "start"
  /\ api # None
  /\ \E parsed \in {parse_food_message(message)} :
        /\ parsed_food' = Some(parsed)
        /\ IF has_total_calories(parsed)
           THEN /\ nutrition_data' = Some(user_provided(parsed))
                /\ ret' = Some([kind |-> "return", parsed_food |-> parsed,
                                nutrition_data |-> Some(user_provided(parsed))])
                /\ pc' = "done"
           ELSE /\ nutrition_data' = None
                /\ ret' = None
                /\ pc' = "usda"
  /\ UNCHANGED <<message, shape, api, ai_parser, calls, requests, ai_reply,
                 parsed_data>>
  /\ UNCHANGED bot_vars

\* 1. nutrition_data = self.search_usda_food(...)
TryUSDA ==
  /\ pc = "usda"
  /\ \E reply \in Replies :
       LET result == search_usda_food(parsed_food[1].food_name,
                                      api[1].usda_api_key, reply)
       IN /\ nutrition_data' = result
          /\ calls' = calls \o usda_calls(parsed_food[1].food_name,
                                           api[1].usda_api_key, reply)
                            \o << [stage |-> "USDA", result |-> result] >>
          /\ requests' = requests \o usda_requests(api[1].usda_api_key)
  /\ pc' = "nutritionix"
  /\ UNCHANGED <<message, shape, api, ai_parser, parsed_food, ret, ai_reply,
                 parsed_data>>
  /\ UNCHANGED bot_vars

\* 2. if not nutrition_data: nutrition_data = self.search_nutritionix(...)
TryNutritionix ==
  /\ pc = "nutritionix"
  /\ IF should_try(nutrition_data)
     THEN \E instant \in InstantReplies, nutrients \in Replies :
            LET result == search_nutritionix(parsed_food[1].food_name,
                                             api[1].nutritionix, instant, nutrients)
            IN /\ nutrition_data' = result
               /\ calls' = calls \o nutritionix_calls(parsed_food[1].food_name,
                                                       api[1].nutritionix, instant, nutrients)
                                 \o << [stage |-> "Nutritionix", result |-> result] >>
               /\ requests' = requests \o nutritionix_requests(parsed_food[1].food_name,
                                                               api[1].nutritionix, instant)
     ELSE UNCHANGED <<nutrition_data, calls, requests>>
  /\ pc' = "scrape"
  /\ UNCHANGED <<message, shape, api, ai_parser, parsed_food, ret, ai_reply,
                 parsed_data>>
  /\ UNCHANGED bot_vars

\* 3. if not nutrition_data: ... = self.web_scraper.search_generic_nutrition(...)
TryScraping ==
  /\ pc = "scrape"
  /\ IF should_try(nutrition_data)
     THEN \E fs \in FatSecretReplies, mfp \in Replies :
            LET food_name == parsed_food[1].food_name
                result == search_generic_nutrition(food_name, fs, mfp)
            IN /\ nutrition_data' = result
               /\ calls' = calls \o generic_calls(food_name, fs, mfp)
                                 \o << [stage |-> "Scraping", result |-> result] >>
               /\ requests' = requests \o generic_requests(food_name, fs, mfp)
     ELSE UNCHANGED <<nutrition_data, calls, requests>>
  /\ pc' = "estimate"
  /\ UNCHANGED <<message, shape, api, ai_parser, parsed_food, ret, ai_reply,
                 parsed_data>>
  /\ UNCHANGED bot_vars

\* 4. if not nutrition_data: ... = self.web_scraper.get_estimated_nutrition(...)
TryEstimate ==
  /\ pc = "estimate"
  /\ IF should_try(nutrition_data)
     THEN LET result == get_estimated_nutrition(parsed_food[1].food_name)
          IN /\ nutrition_data' = result
             /\ calls' = Append(calls, [stage |-> "Estimate", result |-> result])
     ELSE UNCHANGED <<nutrition_data, calls>>
  /\ pc' = "scale"
  /\ UNCHANGED <<message, shape, api, ai_parser, parsed_food, requests, ret,
                 ai_reply, parsed_data>>
  /\ UNCHANGED bot_vars

\* the quantity multiplier and the return
ApplyQuantity ==
  /\ pc = "scale"
  /\ IF Truthy(nutrition_data)
     THEN LET scaled == apply_quantity(nutrition_data[1], parsed_food[1].quantity)
          IN /\ nutrition_data' = Some(scaled.data)
             /\ ret' = IF scaled.raised
                       THEN Some([kind |-> "raise", exc |-> "KeyError"])
                       ELSE Some([kind |-> "return", parsed_food |-> parsed_food[1],
                                  nutrition_data |-> Some(scaled.data)])
     ELSE /\ nutrition_data' = nutrition_data
          /\ ret' = Some([kind |-> "return", parsed_food |-> parsed_food[1],
                          nutrition_data |-> None])
  /\ pc' = "done"
  /\ UNCHANGED <<message, shape, api, ai_parser, parsed_food, calls, requests,
                 ai_reply, parsed_data>>
  /\ UNCHANGED bot_vars

\* the remote requests parse_food_with_ai issues
ai_requests(text, parser, reply, web) ==
  IF ~parser.bedrock_client THEN <<>>
  ELSE <<"bedrock_parsing_prompt">> \o
       (IF reply.kind = "json" /\ ~Truthy(parse_ai_response(reply, text).nutrition_data)
           /\ parser.exa_api_key
        THEN <<"exa_search">> \o
             (IF web.search = "hit" THEN <<"bedrock_extraction_prompt">> ELSE <<>>)
        ELSE <<>>)

\* AIFoodParser.parse_food_with_ai, as the chat handler calls it
ParseFoodWithAI ==
  /\ pc = "start"
  /\ ai_parser # None
  /\ \E reply \in AIReplies, web \in WebOutcomes :
       /\ parsed_data' = Some(parse_food_with_ai(message, ai_parser[1], reply, web))
       /\ calls' = ai_calls(message, ai_parser[1], reply, web)
       /\ requests' = ai_requests(message, ai_parser[1], reply, web)
       /\ ai_reply' = IF ai_parser[1].bedrock_client THEN Some(reply) ELSE None
  /\ pc' = "done"
  /\ UNCHANGED <<message, shape, api, ai_parser, parsed_food, nutrition_data, ret>>
  /\ UNCHANGED bot_vars

Next ==
  \/ GetFoodNutrition
  \/ TryUSDA
  \/ TryNutritionix
  \/ TryScraping
  \/ TryEstimate
  \/ ApplyQuantity
  \/ ParseFoodWithAI

Spec == Init /\ [][Next]_vars

(***************************************************************************)
(* The Estimate Table on its own: get_estimated_nutrition applied to a     *)
(* food name of one or two words, in any letter case.                      *)
(***************************************************************************)
EstimateWords ==
  {<<"r","i","c","e">>, <<"C","h","i","c","k","e","n">>, <<"D","A","L">>,
   <<"r","o","t","i">>, <<"p","i","e">>, <<"p","r","i","c","e">>,
   <<"e","g","g","p","l","a","n","t">>, <<"P","i","n","e","a","p","p","l","e">>,
   <<"P","o","r","k">>, <<"b","r","e","a","d">>}

EstimateNames ==
  EstimateWords \cup {a \o <<" ">> \o b : a \in EstimateWords, b \in EstimateWords}

InitEstimate ==
  /\ shape = [prefix |-> <<>>, sep |-> <<>>, segs |-> <<>>]
  /\ message \in EstimateNames
  /\ api = None
  /\ ai_parser = None
  /\ pc = "lookup"
  /\ parsed_food = None
  /\ nutrition_data = None
  /\ calls = <<>>
  /\ requests = <<>>
  /\ ret = None
  /\ ai_reply = None
  /\ parsed_data = None
  /\ BotIdle

\* NutritionWebScraper.get_estimated_nutrition(message)
GetEstimatedNutrition ==
  /\ pc = "lookup"
  /\ \E result \in {get_estimated_nutrition(message)} :
       /\ nutrition_data' = result
       /\ ret' = Some([kind |-> "return", nutrition_data |-> result])
       /\ calls' = Append(calls, [stage |-> "Estimate", result |-> result])
  /\ pc' = "looked"
  /\ UNCHANGED <<message, shape, api, ai_parser, parsed_food, requests, ai_reply,
                 parsed_data>>
  /\ UNCHANGED bot_vars

NextEstimate == GetEstimatedNutrition

SpecEstimate == InitEstimate /\ [][NextEstimate]_vars

(***************************************************************************)
(* CalorieTrackingBot: the chat handlers.  A handler is a coroutine: it    *)
(* runs without interruption up to an `await` of a Telegram call, gives up *)
(* the event loop there, and goes on when the call has returned or raised. *)
(* parse_food_with_ai and create_food_entry are plain calls and do not     *)
(* give up the loop.  The handlers hold no lock, so while one waits the    *)
(* handler of another update may run.  A position `at` names the await a   *)
(* handler waits in by its line: l90, l99, l120, l157, l161 in             *)
(* handle_message and l169, l174, l202, l204, l211 in handle_callback;     *)
(* "start" is the call of the handler and "done" its end.  A handler run   *)
(* from a position with the outcome `ok` of the awaited call (FALSE when   *)
(* it raised) returns the pending map it leaves, the position it comes to, *)
(* its outcome ("Running" before the end), and what it did on the way.     *)
(* The runs in which every handler ends before the next one starts are the *)
(* runs of an Application that takes one update at a time.                 *)
(***************************************************************************)
\* the list food_indicators of handle_message
food_indicators ==
  << <<"a","t","e">>, <<"e","a","t","e","n">>, <<"j","u","s","t"," ","a","t","e">>,
     <<"i"," ","a","t","e">>, <<"i"," ","j","u","s","t"," ","a","t","e">>,
     <<"h","a","d">>, <<"c","o","n","s","u","m","e","d">>, <<"c","a","l","s">>,
     <<"c","a","l","o","r","i","e","s">> >>

\* any(indicator in message_text.lower() for indicator in food_indicators)
is_food_message(message_text) ==
  With(lower(message_text), LAMBDA text :
    \E i \in DOMAIN food_indicators : Contains(text, food_indicators[i]))

\* `not parsed_data or not parsed_data.get("nutrition_data")`
needs_clarification(parsed) == ~Truthy(parsed.nutrition_data)

\* a store that keeps the entry a user already has (first write wins)
KeepFirst(pending, user_id, parsed) ==
  IF pending[user_id] # None THEN pending
  ELSE [pending EXCEPT ![user_id] = Some(parsed)]

\* `self.user_data[user_id] = parsed_data`
set_user_data(pending, user_id, parsed) == [pending EXCEPT ![user_id] = Some(parsed)]

\* what a handler leaves when it comes to the await `at` or, with `at` "done",
\* to its end
MessageStep(pending, at, outcome, stored) ==
  [user_data |-> pending, at |-> at, outcome |-> outcome, stored |-> stored]

\* CalorieTrackingBot.handle_message, from the position `at` to the next await
\* or the end
handle_message(pending, user_id, message_text, parser, reply, web, at, ok) ==
  CASE at = "start" ->
         IF ~is_food_message(message_text)
         THEN MessageStep(pending, "l90", "Running", FALSE)
         ELSE MessageStep(pending, "l99", "Running", FALSE)
    [] at = "l90" -> MessageStep(pending, "done", "NotFood", FALSE)
    [] at = "l99" ->
         IF ~ok THEN MessageStep(pending, "done", "Raised", FALSE)
         ELSE With(parse_food_with_ai(message_text, parser, reply, web), LAMBDA parsed :
                IF needs_clarification(parsed)
                THEN MessageStep(pending, "l120", "Running", FALSE)
                ELSE MessageStep(set_user_data(pending, user_id, parsed),
                                 "l157", "Running", TRUE))
    [] at = "l120" ->
         IF ok THEN MessageStep(pending, "done", "Clarification", FALSE)
         ELSE MessageStep(pending, "l161", "Running", FALSE)
    [] at = "l157" ->
         IF ok THEN MessageStep(pending, "done", "Shown", FALSE)
         ELSE MessageStep(pending, "l161", "Running", FALSE)
    [] at = "l161" -> MessageStep(pending, "done", "Error", FALSE)

\* a handle_callback that never takes the pending entry for missing
NeverMissing(pending, user_id) == FALSE

\* `user_id not in self.user_data`
no_pending(pending, user_id) == pending[user_id] = None

\* query.data.replace("meal_", "")
meal_type_of(query_data) == sub(<< <<Lit(<<"m","e","a","l","_">>)>> >>, query_data)

\* NotionIntegration.create_food_entry: True when the page was created, False
\* when the request raised or the response was not 2xx
create_food_entry(food_name, calories, proteins, carbs, fats, meal_type, response) ==
  response = "ok"

\* a delete that clears the pending entries of all users
ClearAll(pending, user_id) == [u \in DOMAIN pending |-> None]

\* `del self.user_data[user_id]`, for a user that has an entry
del_user_data(pending, user_id) == [pending EXCEPT ![user_id] = None]

\* what handle_callback leaves when it comes to the await `at` or to its end:
\* `created` is the create_food_entry call it made on the way, `read` says
\* whether it came to read query.data
CallbackStep(pending, at, outcome, created, read) ==
  [user_data |-> pending, at |-> at, outcome |-> outcome, created |-> created,
   read |-> read]

\* the try block of handle_callback up to its await; self.user_data[user_id]
\* raises KeyError when the user has no entry
save_entry(pending, user_id, query_data, response) ==
  IF pending[user_id] = None
  THEN CallbackStep(pending, "l211", "Running", None, TRUE)
  ELSE With(pending[user_id][1], LAMBDA parsed :
    With([food_name |-> parsed.food_name,
          calories |-> parsed.nutrition_data[1].calories,
          proteins |-> parsed.nutrition_data[1].proteins,
          carbs |-> parsed.nutrition_data[1].carbs,
          fats |-> parsed.nutrition_data[1].fats,
          meal_type |-> meal_type_of(query_data),
          success |-> create_food_entry(parsed.food_name,
                                        parsed.nutrition_data[1].calories,
                                        parsed.nutrition_data[1].proteins,
                                        parsed.nutrition_data[1].carbs,
                                        parsed.nutrition_data[1].fats,
                                        meal_type_of(query_data), response)],
         LAMBDA call :
      CallbackStep(pending, IF call.success THEN "l202" ELSE "l204", "Running",
                   Some(call), TRUE)))

\* CalorieTrackingBot.handle_callback, from the position `at` to the next
\* await or the end; after the await of l.202 / l.204 `del` raises KeyError
\* when the entry is gone
handle_callback(pending, user_id, query_data, response, at, ok) ==
  CASE at = "start" -> CallbackStep(pending, "l169", "Running", None, FALSE)
    [] at = "l169" ->
         IF ~ok THEN CallbackStep(pending, "done", "Raised", None, FALSE)
         ELSE IF no_pending(pending, user_id)
         THEN CallbackStep(pending, "l174", "Running", None, FALSE)
         ELSE IF startswith(query_data, <<"m","e","a","l","_">>)
         THEN save_entry(pending, user_id, query_data, response)
         ELSE CallbackStep(pending, "done", "Ignored", None, TRUE)
    [] at = "l174" -> CallbackStep(pending, "done", "NoPendingInteraction", None, FALSE)
    [] at \in {"l202", "l204"} ->
         IF ~ok \/ pending[user_id] = None
         THEN CallbackStep(pending, "l211", "Running", None, FALSE)
         ELSE CallbackStep(del_user_data(pending, user_id), "done",
                           IF at = "l202" THEN "Saved" ELSE "Failed", None, FALSE)
    [] at = "l211" -> CallbackStep(pending, "done", "Error", None, FALSE)

\* the updates the model handles, and the handlers that may wait at a time
MaxUpdates == 3
MaxWaiting == 2

BotMessages == {<<"I"," ","a","t","e"," ","r","i","c","e">>, <<"p","i","e">>}
\* config.MEAL_TYPES
MEAL_TYPES == {<<"B","r","e","a","k","f","a","s","t">>, <<"L","u","n","c","h">>,
               <<"D","i","n","n","e","r">>, <<"S","n","a","c","k">>}

\* the payloads a client may send: a button of the keyboard, a payload with
\* the prefix that is not one of the buttons, and one without the prefix
CallbackData == {<<"m","e","a","l","_","L","u","n","c","h">>,
                 <<"m","e","a","l","_","B","r","u","n","c","h">>,
                 <<"n","o","o","p">>}
NotionResponses == {"ok", "error"}

\* the language model fails, or answers with every key
BotAIReplies ==
  {[kind |-> "raise"],
   [kind |-> "json", found |-> DOMAIN AIReading, values |-> AIReading]}

\* the web search, when the bot's parser comes to it, finds an estimate
BotWebOutcomes ==
  {[search |-> "hit",
    extract |-> [kind |-> "json", found |-> DOMAIN AIReading, values |-> AIReading]]}

\* the awaited Telegram call returns (TRUE) or raises (FALSE)
TelegramOutcomes == BOOLEAN

InitBot ==
  /\ shape = [prefix |-> <<>>, sep |-> <<>>, segs |-> <<>>]
  /\ message = <<>>
  /\ api = None
  /\ ai_parser \in {Some(c) : c \in ParserConfigs}
  /\ pc = "bot"
  /\ parsed_food = None
  /\ nutrition_data = None
  /\ calls = <<>>
  /\ requests = <<>>
  /\ ret = None
  /\ ai_reply = None
  /\ parsed_data = None
  /\ BotIdle

\* the handlers that have not come to their end
Waiting == {i \in DOMAIN updates : updates[i].at # "done"}

\* the updates that stored an interpretation, and for a user with an entry the
\* update that stored last
Stores == {i \in DOMAIN updates : updates[i].wrote > 0}
Writer(u) ==
  IF \E i \in Stores : updates[i].user = u
  THEN CHOOSE i \in Stores :
         /\ updates[i].user = u
         /\ \A j \in Stores : updates[j].user = u => updates[j].wrote <= updates[i].wrote
  ELSE 0

\* An update arrives and its handler is called.  The log of updates has one
\* record for each: the handler, the user, the text received (or the button
\* data once the handler came to read query.data), the language model's
\* reply once the handler asked the model, the position and the outcome, and
\* the entry the handler stored with its place among the stores (wrote; 0
\* while it stored none).
Called(handler, u, input, r) ==
  /\ user_data' = r.user_data
  /\ updates' = Append(updates, [handler |-> handler, user |-> u, input |-> input,
                                 reply |-> [kind |-> "none"], at |-> r.at,
                                 outcome |-> r.outcome, stored |-> FALSE, wrote |-> 0,
                                 entry |-> None])
  /\ notion_calls' = notion_calls

\* a text message arrives: handle_message runs to its first await
HandleMessage ==
  /\ pc = "bot"
  /\ Len(updates) < MaxUpdates
  /\ Cardinality(Waiting) < MaxWaiting
  /\ \E u \in Users, text \in BotMessages, reply \in BotAIReplies, web \in BotWebOutcomes :
       \E r \in {handle_message(user_data, u, text, ai_parser[1], reply, web, "start", TRUE)} :
         Called("handle_message", u, text, r)
  /\ UNCHANGED interp_vars

\* a button is pressed: handle_callback runs to its first await
HandleCallback ==
  /\ pc = "bot"
  /\ Len(updates) < MaxUpdates
  /\ Cardinality(Waiting) < MaxWaiting
  /\ \E u \in Users, data \in CallbackData, response \in NotionResponses :
       \E r \in {handle_callback(user_data, u, data, response, "start", TRUE)} :
         Called("handle_callback", u, <<>>, r)
  /\ UNCHANGED interp_vars

\* the Telegram call that handle_message i waits for returns or raises, and
\* the handler runs to its next await or to its end
ResumeMessage ==
  /\ pc = "bot"
  /\ \E i \in Waiting, reply \in BotAIReplies, web \in BotWebOutcomes, ok \in TelegramOutcomes :
       /\ updates[i].handler = "handle_message"
       /\ \E upd \in {updates[i]} :
          \E r \in {handle_message(user_data, upd.user, upd.input, ai_parser[1], reply,
                                   web, upd.at, ok)} :
            /\ user_data' = r.user_data
            /\ updates' =
                 [updates EXCEPT ![i] =
                    [handler |-> upd.handler, user |-> upd.user, input |-> upd.input,
                     reply |-> IF upd.at = "l99" /\ ok /\ ai_parser[1].bedrock_client
                               THEN reply ELSE upd.reply,
                     at |-> r.at, outcome |-> r.outcome,
                     stored |-> upd.stored \/ r.stored,
                     wrote |-> IF r.stored THEN Cardinality(Stores) + 1 ELSE upd.wrote,
                     entry |-> IF r.stored THEN r.user_data[upd.user] ELSE upd.entry]]
            /\ notion_calls' = notion_calls
  /\ UNCHANGED interp_vars

\* the Telegram call that handle_callback i waits for returns or raises, and
\* the handler runs to its next await or to its end; a create_food_entry call
\* is logged with the update that made it and the update whose entry it read
ResumeCallback ==
  /\ pc = "bot"
  /\ \E i \in Waiting, data \in CallbackData, response \in NotionResponses,
        ok \in TelegramOutcomes :
       /\ updates[i].handler = "handle_callback"
       /\ \E upd \in {updates[i]} :
          \E r \in {handle_callback(user_data, upd.user, data, response, upd.at, ok)} :
            /\ user_data' = r.user_data
            /\ updates' =
                 [updates EXCEPT ![i] =
                    [handler |-> upd.handler, user |-> upd.user,
                     input |-> IF r.read THEN data ELSE upd.input,
                     reply |-> upd.reply, at |-> r.at, outcome |-> r.outcome,
                     stored |-> upd.stored, wrote |-> upd.wrote, entry |-> upd.entry]]
            /\ notion_calls' =
                 IF r.created = None THEN notion_calls
                 ELSE Append(notion_calls, [call |-> r.created[1], update |-> i,
                                            of |-> Writer(upd.user)])
  /\ UNCHANGED interp_vars

NextBot ==
  \/ HandleMessage
  \/ HandleCallback
  \/ ResumeMessage
  \/ ResumeCallback

SpecBot == InitBot /\ [][NextBot]_vars

\* C23 (as stated): every entry handed to the record store has a meal type
\* of config.MEAL_TYPES, whatever payload with the prefix "meal_" the
\* callback carried.
C23_MealTypeKnown ==
  \A i \in DOMAIN notion_calls : notion_calls[i].call.meal_type \in MEAL_TYPES

\* C25 (as stated): a user has a pending interaction only if a handle_message
\* of that user showed this interpretation with the meal-type buttons (or is
\* about to: it has not come to its end), and a handle_message that ended in
\* its error reply left no pending interaction behind.
C25_PendingOnlyIfShown ==
  /\ \A u \in Users :
       user_data[u] # None =>
         \E i \in DOMAIN updates :
           /\ updates[i].handler = "handle_message" /\ updates[i].user = u
           /\ updates[i].outcome \in {"Shown", "Running"}
           /\ updates[i].entry = user_data[u]
  /\ \A i \in DOMAIN updates :
       (updates[i].handler = "handle_message" /\ updates[i].outcome = "Error")
         => ~updates[i].stored

(***************************************************************************)
(* Properties of one interpretation (specification Spec).                  *)
(***************************************************************************)
\* the four stages of get_food_nutrition, in the order of the source
ChainOrder == <<"USDA", "Nutritionix", "Scraping", "Estimate">>

IsChainStage(c) == c.stage \in {"USDA", "Nutritionix", "Scraping", "Estimate"}

\* the calls get_food_nutrition itself made (FatSecret and MyFitnessPal are
\* calls of the Scraping stage)
chain == SelectSeq(calls, IsChainStage)

\* a structured run whose message gave no usable calories
LookupRun ==
  api # None /\ parsed_food # None /\ ~has_total_calories(parsed_food[1])

\* the number of stages get_food_nutrition has decided about so far
StagesDecided ==
  CASE pc = "nutritionix" -> 1
    [] pc = "scrape" -> 2
    [] pc = "estimate" -> 3
    [] pc \in {"scale", "done"} -> 4
    [] OTHER -> 0

Returned == pc = "done" /\ ret # None /\ ret[1].kind = "return"

\* C1: in structured mode without user-provided calories the stages run in the
\* order USDA, Nutritionix, Scraping, Estimate; a stage is invoked if and only
\* if every earlier stage was invoked and produced nothing; the returned
\* estimate comes from the first stage that produced a result, which is the
\* last stage invoked.
C1_ChainOrder ==
  LookupRun =>
    /\ Len(chain) <= StagesDecided
    /\ \A i \in DOMAIN chain : chain[i].stage = ChainOrder[i]
    /\ \A k \in 1..StagesDecided :
         (k <= Len(chain)) <=>
           (\A j \in 1..(k - 1) : j <= Len(chain) /\ chain[j].result = None)
    /\ Returned =>
         IF \E i \in DOMAIN chain : chain[i].result # None
         THEN /\ chain[Len(chain)].result # None
              /\ ret[1].nutrition_data # None
              /\ ret[1].nutrition_data[1].source = chain[Len(chain)].result[1].source
              /\ ret[1].nutrition_data[1].name = chain[Len(chain)].result[1].name
         ELSE ret[1].nutrition_data = None

\* a message without a calorie token, both API clients configured: the third
\* stage produced the estimate that was returned
C1_Witness ==
  /\ LookupRun /\ Returned
  /\ parsed_food[1].total_calories = None
  /\ api[1].usda_api_key /\ api[1].nutritionix
  /\ Len(chain) = 3
  /\ chain[1].result = None /\ chain[2].result = None /\ chain[3].result # None
  /\ ret[1].nutrition_data # None

\* C2 (as stated): whatever the stages return, get_food_nutrition and
\* parse_food_with_ai return to the caller and never raise.
C2_NeverRaises ==
  pc = "done" =>
    /\ api # None => (ret # None /\ ret[1].kind = "return")
    /\ ai_parser # None => parsed_data # None

\* C3: when get_food_nutrition returns an estimate that does not come from the
\* user's own calories, every field is the terminating stage's value times
\* the parsed quantity, multiplied once, however many stages ran.
C3_ScaledOnce ==
  (LookupRun /\ Returned /\ ret[1].nutrition_data # None) =>
    \A f \in Fields :
      /\ f \in DOMAIN ret[1].nutrition_data[1]
      /\ f \in DOMAIN chain[Len(chain)].result[1]
      /\ ret[1].nutrition_data[1][f] =
           Times(chain[Len(chain)].result[1][f], parsed_food[1].quantity)

\* the Estimate Table's rice row, reached after three empty stages, times 3
C3_Witness ==
  /\ LookupRun /\ Returned
  /\ Len(chain) = 4
  /\ parsed_food[1].quantity = 3
  /\ ret[1].nutrition_data # None
  /\ ret[1].nutrition_data[1].calories = Num(390)
  /\ ret[1].nutrition_data[1].proteins = Tenths(81) + 1
  /\ ret[1].nutrition_data[1].fats = Tenths(9) - 1

\* a run of the AI mode that has returned
AIReturned == pc = "done" /\ ai_parser # None /\ parsed_data # None

\* what the terminating stage of the AI mode supplied for field f: the
\* model's number for the AI analysis, the web estimate for the web search
Supplied(f) ==
  IF parsed_data[1].nutrition_data[1].source = "AI Analysis"
  THEN Field(ai_reply[1], f, 0)
  ELSE calls[Len(calls)].result[1][f]

FromAIOrWeb ==
  /\ AIReturned
  /\ parsed_data[1].nutrition_data # None
  /\ parsed_data[1].nutrition_data[1].source \in {"AI Analysis", "Web Search (Exa)"}

\* C4 (as stated): in AI mode an estimate of the AI-analysis or web-search
\* stage has every field equal to the stage's value times the returned
\* quantity.
C4_ScaledByQuantity ==
  FromAIOrWeb =>
    \A f \in Fields :
      parsed_data[1].nutrition_data[1][f] = Times(Supplied(f), parsed_data[1].quantity)

\* C4 (amended): in AI mode an estimate of the AI-analysis or web-search stage
\* has every field equal to the value the stage supplied, unchanged: no
\* multiplication by the returned quantity takes place.
C4_AsSupplied ==
  FromAIOrWeb =>
    \A f \in Fields : parsed_data[1].nutrition_data[1][f] = Supplied(f)

\* the model answered quantity 2 and 260 kcal, and 260 kcal is returned
C4_Witness ==
  /\ FromAIOrWeb
  /\ parsed_data[1].quantity = 2
  /\ Field(ai_reply[1], "calories", 0) = Num(260)
  /\ parsed_data[1].nutrition_data[1].calories = Num(260)

\* the segments of a shape that carry a calorie token
CalorieSegs(sh) == {i \in DOMAIN sh.segs : sh.segs[i].annot \in CalorieAnnots}

\* the message holds exactly one calorie token, of a positive number
SingleCalorieToken(sh) ==
  /\ Cardinality(CalorieSegs(sh)) = 1
  /\ \A i \in CalorieSegs(sh) : sh.segs[i].n > 0

TokenValue(sh) == sh.segs[CHOOSE i \in CalorieSegs(sh) : TRUE].n

\* the Fallback stage of the AI mode produced the returned estimate
FallbackRan ==
  /\ AIReturned
  /\ parsed_data[1].nutrition_data # None
  /\ parsed_data[1].nutrition_data[1].source = "Fallback"

CaloriesOnly(nd, n) ==
  nd.calories = Num(n) /\ nd.proteins = 0 /\ nd.carbs = 0 /\ nd.fats = 0

\* C5: for a message with one calorie token `N cals`, N positive,
\* get_food_nutrition returns calories N with proteins, carbs and fats 0,
\* tagged User Provided, without a lookup stage, a remote request or a
\* multiplication by quantity; _fallback_parse reports calories N and zeros.
C5_UserCalories ==
  (pc = "done" /\ SingleCalorieToken(shape)) =>
    /\ api # None =>
         /\ Returned
         /\ ret[1].nutrition_data # None
         /\ CaloriesOnly(ret[1].nutrition_data[1], TokenValue(shape))
         /\ ret[1].nutrition_data[1].source = "User Provided"
         /\ calls = <<>>
         /\ requests = <<>>
    /\ FallbackRan => CaloriesOnly(parsed_data[1].nutrition_data[1], TokenValue(shape))

\* "I ate rice (12 cals)" through get_food_nutrition
C5_Witness ==
  /\ pc = "done" /\ api # None
  /\ SingleCalorieToken(shape) /\ TokenValue(shape) = 12
  /\ Len(shape.segs) = 1 /\ shape.prefix # <<>>
  /\ Returned
  /\ ret[1].nutrition_data[1].calories = Num(12)

\* a message "X (A cals) and Y (B cals)" with positive A and B
CompoundCalories(sh) ==
  /\ Len(sh.segs) = 2
  /\ \A i \in 1..2 : sh.segs[i].annot = "paren_cals" /\ sh.segs[i].n > 0

\* the parse and the estimate a compound message must give
CompoundParse(parsed, sh) ==
  /\ "items" \in DOMAIN parsed
  /\ Len(parsed.items) = 2
  /\ \A i \in 1..2 : /\ parsed.items[i].food_name = sh.segs[i].food
                     /\ parsed.items[i].calories = sh.segs[i].n
  /\ parsed.total_calories = Some(sh.segs[1].n + sh.segs[2].n)
  /\ parsed.quantity = 2

\* C6 (as stated, for positive A and B): "X (A cals) and Y (B cals)" parses to two items in message
\* order with calories A and B, total_calories A + B and quantity 2, and the
\* estimate reported to the caller has calories A + B, by the Pattern
\* Extractor path and by the Fallback stage alike.
C6_CompoundTotal ==
  (pc = "done" /\ CompoundCalories(shape)) =>
    /\ api # None =>
         /\ CompoundParse(parsed_food[1], shape)
         /\ Returned
         /\ ret[1].nutrition_data # None
         /\ ret[1].nutrition_data[1].calories =
              Num(shape.segs[1].n + shape.segs[2].n)
    /\ FallbackRan =>
         /\ parsed_data[1].quantity = 2
         /\ parsed_data[1].nutrition_data[1].calories =
              Num(shape.segs[1].n + shape.segs[2].n)

\* C7 (as stated): every estimate a stage returns carries all four of
\* calories, proteins, carbs and fats.
C7_StagesAtomic ==
  \A i \in DOMAIN calls :
    calls[i].result # None => Fields \subseteq DOMAIN calls[i].result[1]

\* a structured run that has returned and in which no stage before the
\* Estimate Table produced anything
OnlyEstimateTable ==
  /\ api # None /\ Returned
  /\ \A i \in DOMAIN chain : chain[i].stage # "Estimate" => chain[i].result = None

\* the estimate returned has the values c, cb, p, f (in tenths) and is tagged
\* Estimated
ReturnedEstimate(c, cb, p, f) ==
  /\ ret[1].nutrition_data # None
  /\ ret[1].nutrition_data[1].calories = Tenths(c)
  /\ ret[1].nutrition_data[1].carbs = Tenths(cb)
  /\ ret[1].nutrition_data[1].proteins = Tenths(p)
  /\ ret[1].nutrition_data[1].fats = Tenths(f)
  /\ ret[1].nutrition_data[1].source = "Estimated"

\* C13: in structured mode "I just ate chicken wing 6-piece" is parsed to
\* food_name "chicken wing" and quantity 6, and with no API key configured
\* and nothing scraped the estimate returned is the Estimate Table's chicken
\* row times 6: calories 990, carbs 0, proteins 186, fats 21.6, Estimated.
C13_ChickenWing ==
  (api # None /\ shape \in ExampleShapes) =>
    /\ parsed_food # None =>
         /\ parsed_food[1].food_name = <<"c","h","i","c","k","e","n"," ","w","i","n","g">>
         /\ parsed_food[1].quantity = 6
    /\ (OnlyEstimateTable /\ ~api[1].usda_api_key /\ ~api[1].nutritionix) =>
         /\ ret[1].parsed_food.quantity = 6
         /\ ReturnedEstimate(9900, 0, 1860, 216)

\* the run on that message with nothing configured has returned
C13_Witness ==
  /\ shape \in ExampleShapes
  /\ OnlyEstimateTable /\ ~api[1].usda_api_key /\ ~api[1].nutritionix
  /\ Len(chain) = 4
  /\ ret[1].nutrition_data # None

\* C14: with only the Estimate Table producing anything, the message "rice"
\* yields quantity 1 and the table's rice row unchanged: calories 130, carbs
\* 28, proteins 2.7, fats 0.3, Estimated.
C14_Rice ==
  (message = <<"r","i","c","e">> /\ OnlyEstimateTable) =>
    /\ ret[1].parsed_food.quantity = 1
    /\ ReturnedEstimate(1300, 280, 27, 3)

\* the run on "rice" has returned after three stages that produced nothing
C14_Witness ==
  /\ message = <<"r","i","c","e">>
  /\ OnlyEstimateTable
  /\ Len(chain) = 4
  /\ ret[1].nutrition_data # None

\* the language model answered a well-formed object without usable macros
NoUsableMacros ==
  /\ AIReturned
  /\ ai_parser[1].bedrock_client
  /\ ai_reply # None /\ ai_reply[1].kind = "json"
  /\ \A f \in Fields : Field(ai_reply[1], f, 0) = 0

\* C16 (as stated): in AI mode, when the model's well-formed reply has
\* calories, proteins, carbs and fats all zero or absent and the web search
\* is configured, parse_food_with_ai invokes the web-search stage, and an
\* estimate that stage yields is the one returned, tagged as web search.
C16_WebSearchOnNoMacros ==
  (NoUsableMacros /\ ai_parser[1].exa_api_key) =>
    \E i \in DOMAIN calls :
      /\ calls[i].stage = "Web Search"
      /\ calls[i].result # None =>
           /\ parsed_data[1].nutrition_data = calls[i].result
           /\ parsed_data[1].nutrition_data[1].source = "Web Search (Exa)"

\* the language model gave no well-formed JSON object: there is no client,
\* the call raised, or the reply could not be decoded
NoModelObject ==
  /\ AIReturned
  /\ ai_parser[1].bedrock_client => (ai_reply # None /\ ai_reply[1].kind # "json")

\* the number of the first calorie token of the message, 0 without a token
FirstTokenValue(sh) ==
  IF CalorieSegs(sh) = {} THEN 0 ELSE sh.segs[SetMin(CalorieSegs(sh))].n

\* C17: when the language model yields no well-formed JSON object,
\* parse_food_with_ai returns the Fallback estimate: calories of the first
\* calorie token or 0, proteins, carbs and fats 0, source Fallback, confidence
\* low; food name, quantity and calories of the reply appear nowhere in it.
C17_FallbackOnFailure ==
  NoModelObject =>
    /\ parsed_data[1].nutrition_data # None
    /\ CaloriesOnly(parsed_data[1].nutrition_data[1], FirstTokenValue(shape))
    /\ parsed_data[1].nutrition_data[1].source = "Fallback"
    /\ parsed_data[1].nutrition_data[1].confidence = "low"
    /\ parsed_data[1].confidence = "low"
    /\ "unit" \notin DOMAIN parsed_data[1]
    /\ parsed_data[1].food_name # AIReading.food_name
    /\ parsed_data[1].nutrition_data[1].name # AIReading.food_name
    /\ parsed_data[1].quantity # AIReading.quantity
    /\ parsed_data[1].nutrition_data[1].calories # AIReading.calories

\* the reply held every value but could not be decoded, the message held
\* "12 cals": 12 kcal are returned
C17_Witness ==
  /\ NoModelObject
  /\ ai_parser[1].bedrock_client
  /\ ai_reply[1].kind = "malformed"
  /\ FirstTokenValue(shape) = 12
  /\ parsed_data[1].nutrition_data[1].calories = Num(12)
  /\ parsed_data[1].nutrition_data[1].source = "Fallback"

\* the ParsedFood of a structured run lists one or two items
HasItems ==
  /\ api # None /\ parsed_food # None
  /\ "items" \in DOMAIN parsed_food[1]
  /\ Len(parsed_food[1].items) \in {1, 2}

\* C19: when the ParsedFood of parse_food_message has items, its food_name is
\* the items' names joined with " + " in order, its quantity is the number of
\* items, and its total_calories, when present, is the sum of the items'
\* calories.
C19_ItemsAgree ==
  (api # None /\ parsed_food # None /\ "items" \in DOMAIN parsed_food[1]
   /\ parsed_food[1].items # <<>>) =>
     /\ HasItems
     /\ parsed_food[1].quantity = Len(parsed_food[1].items)
     /\ Len(parsed_food[1].items) = 1 =>
          /\ parsed_food[1].food_name = parsed_food[1].items[1].food_name
          /\ parsed_food[1].total_calories # None =>
               parsed_food[1].total_calories[1] = parsed_food[1].items[1].calories
     /\ Len(parsed_food[1].items) = 2 =>
          /\ parsed_food[1].food_name =
               parsed_food[1].items[1].food_name \o <<" ","+"," ">> \o
               parsed_food[1].items[2].food_name
          /\ parsed_food[1].total_calories # None =>
               parsed_food[1].total_calories[1] =
                 parsed_food[1].items[1].calories + parsed_food[1].items[2].calories

\* "rice 3-piece and pie": two items, the first with quantity 3, no calories
C19_Witness ==
  /\ HasItems
  /\ Len(parsed_food[1].items) = 2
  /\ parsed_food[1].total_calories = None
  /\ parsed_food[1].items[1].quantity = 3
  /\ parsed_food[1].food_name = <<"r","i","c","e"," ","+"," ","p","i","e">>
  /\ parsed_food[1].quantity = 2

\* C20 (as stated): the quantity parse_food_message and _fallback_parse
\* produce is an integer of at least 1.
C20_QuantityPositive ==
  /\ (api # None /\ parsed_food # None) => parsed_food[1].quantity >= 1
  /\ FallbackRan => parsed_data[1].quantity >= 1

\* a name is clean: not empty, no blank at either end
Clean(name) ==
  /\ name # <<>>
  /\ ~IsSpace(name[1]) /\ ~IsSpace(name[Len(name)])

\* C21 (as stated): the food_name parse_food_message returns, and the
\* food_name of every entry of items, is non-empty and has no leading or
\* trailing whitespace.
C21_NamesClean ==
  (api # None /\ parsed_food # None) =>
    /\ Clean(parsed_food[1].food_name)
    /\ "items" \in DOMAIN parsed_food[1] =>
         \A i \in DOMAIN parsed_food[1].items : Clean(parsed_food[1].items[i].food_name)

\* no element occurs twice in a sequence
NoRepeat(seq) == \A i \in DOMAIN seq : \A j \in DOMAIN seq : seq[i] = seq[j] => i = j

\* C22: within one interpretation every remote endpoint (the language model
\* per prompt, the web search, the USDA search, the two Nutritionix calls,
\* each scraped page) is requested at most once, and no stage is invoked a
\* second time, whether it failed or not.
C22_NoRetries ==
  /\ NoRepeat(requests)
  /\ NoRepeat([i \in DOMAIN calls |-> calls[i].stage])

\* every stage of the chain failed after asking its endpoint, and the
\* interpretation ended with the Estimate Table
C22_Witness ==
  /\ pc = "done" /\ api # None
  /\ requests = <<"usda_search", "nutritionix_instant", "nutritionix_nutrients",
                  "fatsecret_search", "fatsecret_detail", "myfitnesspal_search">>
  /\ \A i \in DOMAIN chain : chain[i].stage # "Estimate" => chain[i].result = None

\* the language model failed on its parsing prompt: it was asked once, and
\* the local fallback answered
C22_AIWitness ==
  /\ pc = "done" /\ ai_parser # None
  /\ ai_reply = Some([kind |-> "raise"])
  /\ requests = <<"bedrock_parsing_prompt">>

\* the requests issued so far, as a set
Requested == {requests[i] : i \in DOMAIN requests}

\* the result of the call of a stage, None when the stage was not called
ResultOf(stage) ==
  IF \E i \in DOMAIN calls : calls[i].stage = stage
  THEN calls[CHOOSE i \in DOMAIN calls : calls[i].stage = stage].result
  ELSE None

\* a backend without credentials issued no request and produced nothing
SkippedUnconfigured ==
  /\ ~api[1].usda_api_key =>
        /\ "usda_search" \notin Requested
        /\ ResultOf("USDA") = None
  /\ ~api[1].nutritionix =>
        /\ Requested \cap {"nutritionix_instant", "nutritionix_nutrients"} = {}
        /\ ResultOf("Nutritionix") = None

NoCredentials == ~api[1].usda_api_key /\ ~api[1].nutritionix

EstimateConsulted == \E i \in DOMAIN calls : calls[i].stage = "Estimate"

\* C24 (as stated): a backend whose credentials are missing is skipped without
\* a remote request and contributes nothing, and with no credentials at all
\* no remote request has been issued when the Estimate Table is consulted.
C24_NoRequestBeforeEstimate ==
  api # None =>
    /\ SkippedUnconfigured
    /\ (NoCredentials /\ EstimateConsulted) => requests = <<>>

\* C24 (amended): a backend whose credentials are missing is skipped without
\* a remote request and contributes nothing; with no credentials at all the
\* only requests issued are those of the page scraper, which needs none, and
\* the scraper has asked FatSecret's search page whenever the Estimate Table
\* is consulted.
C24_OnlyScraperRequests ==
  api # None =>
    /\ SkippedUnconfigured
    /\ NoCredentials =>
         /\ Requested \subseteq {"fatsecret_search", "fatsecret_detail",
                                  "myfitnesspal_search"}
         /\ EstimateConsulted => "fatsecret_search" \in Requested

\* no credentials, USDA and Nutritionix were called and skipped, the scraper
\* asked its pages, and the Estimate Table answered
C24_Witness ==
  /\ api # None /\ NoCredentials /\ Returned
  /\ Len(chain) = 4
  /\ requests = <<"fatsecret_search", "myfitnesspal_search">>
  /\ ret[1].nutrition_data # None /\ ret[1].nutrition_data[1].source = "Estimated"

\* C26 (as stated): with no language model configured, the food_name and the
\* quantity parse_food_with_ai returns (from _fallback_parse) are those
\* parse_food_message gives for the same text.
C26_FallbackIsPatternExtractor ==
  (AIReturned /\ ~ai_parser[1].bedrock_client) =>
    \E parsed \in {parse_food_message(message)} :
      /\ parsed_data[1].food_name = parsed.food_name
      /\ parsed_data[1].quantity = parsed.quantity

\* what quantity extraction makes of one segment without a calorie token: the
\* number of the pattern that comes first in quantity_patterns (-piece before
\* cups, cups before large), and the text without that pattern's matches
ExpectedQuantity(seg) ==
  CASE seg.annot \in {"piece", "cups", "tab_cups", "piece_piece"} -> seg.n
    [] seg.annot \in {"cups_piece", "large_cups"} -> seg.m
    [] OTHER -> 1

ExpectedName(seg) ==
  CASE seg.annot = "cups_piece" -> str(seg.n) \o <<" ","c","u","p","s"," ">> \o seg.food
    [] seg.annot = "large_cups" -> seg.food \o <<" ">> \o str(seg.n) \o <<" ","l","a","r","g","e">>
    [] OTHER -> seg.food

\* a structured run on a message without a calorie token
QuantityRun ==
  /\ api # None /\ parsed_food # None
  /\ CalorieSegs(shape) = {}

\* C27: the quantity is the number matched by the first pattern of
\* quantity_patterns, in list order, that matches anywhere in the segment,
\* not the leftmost quantity of the text; the matches of that pattern alone
\* are removed to form food_name; without a match the quantity is 1 and the
\* text is unchanged.  For a compound message this holds item by item.
C27_FirstPatternInListOrder ==
  QuantityRun =>
    IF Len(shape.segs) = 1
    THEN /\ parsed_food[1].quantity = ExpectedQuantity(shape.segs[1])
         /\ parsed_food[1].food_name = ExpectedName(shape.segs[1])
    ELSE /\ Len(parsed_food[1].items) = 2
         /\ \A i \in 1..2 :
              /\ parsed_food[1].items[i].quantity = ExpectedQuantity(shape.segs[i])
              /\ parsed_food[1].items[i].food_name = ExpectedName(shape.segs[i])

\* "4 cups rice 3-piece": the quantity is 3, of the -piece pattern, although
\* "4 cups" stands first in the text, and "4 cups" stays in the name
C27_Witness ==
  /\ QuantityRun
  /\ message = <<"4"," ","c","u","p","s"," ","r","i","c","e"," ","3","-","p","i","e","c","e">>
  /\ parsed_food[1].quantity = 3
  /\ parsed_food[1].food_name = <<"4"," ","c","u","p","s"," ","r","i","c","e">>

\* the position in calls of the call of a stage, 0 when there is none
CallOf(stage) ==
  IF \E i \in DOMAIN calls : calls[i].stage = stage
  THEN CHOOSE i \in DOMAIN calls : calls[i].stage = stage
  ELSE 0

\* the query the nutrients call has to carry for an instant reply: the name
\* of the first common hit, of the first branded hit when there is no common
\* hit, the name searched for when that hit carries no name
KeyOf(reply) ==
  IF reply.common # <<>>
  THEN IF "food_name" \in reply.common[1].keys
       THEN reply.common[1].food_name ELSE parsed_food[1].food_name
  ELSE IF "food_name" \in reply.branded[1].keys
       THEN reply.branded[1].food_name ELSE parsed_food[1].food_name

\* the Nutritionix client ran with credentials
NutritionixRan == api # None /\ CallOf("Nutritionix") # 0 /\ api[1].nutritionix

\* C28: the nutrients call is issued only after the instant search, and only
\* when that returned at least one hit; its query is the name of the first
\* common hit, of the first branded hit only when there is no common hit; a
\* failure or empty result of either call makes the client return absent, and
\* the chain goes on with page scraping.
C28_TwoCallProtocol ==
  NutritionixRan =>
    /\ CallOf("instant_search") # 0
    /\ CallOf("instant_search") < CallOf("Nutritionix")
    /\ \E inst \in {calls[CallOf("instant_search")].reply} :
        /\ ("nutritionix_nutrients" \in Requested) <=> (CallOf("get_nutritionix_nutrition") # 0)
        /\ CallOf("get_nutritionix_nutrition") # 0 =>
             /\ CallOf("instant_search") < CallOf("get_nutritionix_nutrition")
             /\ CallOf("get_nutritionix_nutrition") < CallOf("Nutritionix")
             /\ inst.kind = "json"
             /\ inst.common # <<>> \/ inst.branded # <<>>
             /\ calls[CallOf("get_nutritionix_nutrition")].query = KeyOf(inst)
             /\ calls[CallOf("get_nutritionix_nutrition")].reply.kind # "hit" =>
                  calls[CallOf("Nutritionix")].result = None
        /\ (inst.kind = "error" \/ (inst.common = <<>> /\ inst.branded = <<>>)) =>
             /\ CallOf("get_nutritionix_nutrition") = 0
             /\ calls[CallOf("Nutritionix")].result = None
        /\ (calls[CallOf("Nutritionix")].result = None /\ pc \in {"estimate", "scale", "done"}) =>
             CallOf("Scraping") > CallOf("Nutritionix")

\* the instant search returned common and branded hits, the nutrients call
\* asked for the first common hit and failed, and page scraping ran next
C28_Witness ==
  /\ NutritionixRan
  /\ CallOf("get_nutritionix_nutrition") # 0
  /\ calls[CallOf("instant_search")].reply.common # <<>>
  /\ calls[CallOf("instant_search")].reply.branded # <<>>
  /\ calls[CallOf("get_nutritionix_nutrition")].query = <<"w","h","i","t","e"," ","r","i","c","e">>
  /\ calls[CallOf("get_nutritionix_nutrition")].reply.kind = "error"
  /\ CallOf("Scraping") # 0

\* no common hit: the nutrients call asked for the first branded hit
C28_BrandedWitness ==
  /\ NutritionixRan
  /\ CallOf("get_nutritionix_nutrition") # 0
  /\ calls[CallOf("instant_search")].reply.common = <<>>
  /\ calls[CallOf("get_nutritionix_nutrition")].query = <<"r","i","c","e"," ","c","a","k","e","s">>

\* the USDA search answered with a first hit that has none of the nutrient
\* ids 1008, 205, 203, 204
UsdaHitWithoutNutrients ==
  /\ api # None /\ CallOf("usda_search") # 0
  /\ calls[CallOf("usda_search")].reply.kind = "hit"
  /\ calls[CallOf("usda_search")].reply.found \cap Fields = {}

AllZero(nd) == \A f \in Fields : nd[f] = 0

\* C29: a USDA first hit without any of the four nutrient ids makes
\* search_usda_food return an estimate whose calories, carbs, proteins and
\* fats are all 0; that estimate ends the chain: Nutritionix, page scraping
\* and the Estimate Table are not consulted, and get_food_nutrition returns
\* the all-zero estimate.
C29_ZeroEstimateEndsChain ==
  UsdaHitWithoutNutrients =>
    /\ CallOf("USDA") # 0
    /\ calls[CallOf("USDA")].result # None
    /\ AllZero(calls[CallOf("USDA")].result[1])
    /\ \A i \in DOMAIN chain : chain[i].stage = "USDA"
    /\ requests = <<"usda_search">>
    /\ pc = "done" =>
         /\ Returned
         /\ ret[1].nutrition_data # None
         /\ AllZero(ret[1].nutrition_data[1])
         /\ ret[1].nutrition_data[1].source = "USDA"

\* such a run has returned, with every other backend configured
C29_Witness ==
  /\ UsdaHitWithoutNutrients
  /\ api[1].nutritionix
  /\ Returned
  /\ AllZero(ret[1].nutrition_data[1])
  /\ parsed_food[1].quantity = 3

\* a structured run on a compound message without calorie tokens that has
\* returned an estimate
CompoundReturned ==
  /\ api # None /\ Returned
  /\ Len(shape.segs) = 2 /\ CalorieSegs(shape) = {}
  /\ ret[1].nutrition_data # None

\* C30: for a compound message without calorie tokens get_food_nutrition
\* looks up one estimate, for the joined food name, and multiplies it by the
\* number of items; the quantities recorded in items have no effect on the
\* returned estimate.
C30_CompoundEstimate ==
  CompoundReturned =>
    /\ parsed_food[1].food_name =
         ExpectedName(shape.segs[1]) \o <<" ","+"," ">> \o ExpectedName(shape.segs[2])
    /\ parsed_food[1].quantity = 2
    /\ NoRepeat([i \in DOMAIN chain |-> chain[i].stage])
    /\ chain[Len(chain)].result # None
    /\ \A i \in 1..(Len(chain) - 1) : chain[i].result = None
    /\ \A f \in Fields :
         ret[1].nutrition_data[1][f] = Times(chain[Len(chain)].result[1][f], 2)
    /\ chain[Len(chain)].stage = "Estimate" =>
         /\ chain[Len(chain)].result = get_estimated_nutrition(parsed_food[1].food_name)
         /\ ReturnedEstimate(2600, 560, 54, 6)

\* "rice 3-piece and 12 cups pie": items of quantity 3 and 12, and the rice
\* row of the Estimate Table twice
C30_Witness ==
  /\ CompoundReturned
  /\ parsed_food[1].items[1].quantity = 3
  /\ parsed_food[1].items[2].quantity = 12
  /\ chain[Len(chain)].stage = "Estimate"
  /\ ReturnedEstimate(2600, 560, 54, 6)

(***************************************************************************)
(* Properties of the Estimate Table (specification SpecEstimate).          *)
(***************************************************************************)
\* the table positions whose key occurs in the name, letter case ignored
KeysOccurring(name) ==
  {k \in DOMAIN food_estimates : Contains(lower(name), food_estimates[k].key)}

\* C15: get_estimated_nutrition returns the row of the first key, in table
\* order, that occurs in the name with letter case ignored, whichever other
\* keys occur as well; it returns nothing exactly when no key occurs.
C15_FirstKeyWins ==
  pc = "looked" =>
    /\ (nutrition_data = None) <=> (KeysOccurring(message) = {})
    /\ \A k \in KeysOccurring(message) :
         (\A j \in KeysOccurring(message) : k <= j) =>
            /\ nutrition_data[1].name = message
            /\ nutrition_data[1].source = "Estimated"
            /\ \A f \in Fields : nutrition_data[1][f] = food_estimates[k][f]

\* "Chicken rice": chicken comes first in the name and is the longer key,
\* rice comes first in the table and wins
C15_Witness ==
  /\ pc = "looked"
  /\ message = <<"C","h","i","c","k","e","n"," ","r","i","c","e">>
  /\ KeysOccurring(message) = {1, 2}
  /\ nutrition_data # None
  /\ nutrition_data[1].calories = Num(130) /\ nutrition_data[1].proteins = Tenths(27)

(***************************************************************************)
(* Properties of the chat handlers (specification SpecBot).                *)
(***************************************************************************)
LastUpdate == updates[Len(updates)]
LastCall == notion_calls[Len(notion_calls)]

\* this step is a step of the handler of update i, which was called before
StepOf(i) == updates'[i] # updates[i]

\* C8: a meal-type confirmation that finds its user without a pending
\* interaction (the test of l.173, after the answer to the button press) goes
\* on to the 'No food data found' reply and ends with the
\* NoPendingInteraction outcome, or ended before the test when Telegram
\* refused the answer: in these steps create_food_entry is not called and the
\* pending map is unchanged.
C8_NoPending ==
  [][\A i \in DOMAIN updates :
       (updates[i].handler = "handle_callback" /\ StepOf(i)) =>
          /\ (updates[i].at = "l169" /\ user_data[updates[i].user] = None) =>
                /\ notion_calls' = notion_calls
                /\ user_data' = user_data
                /\ \/ updates'[i].at = "l174"
                   \/ updates'[i].outcome = "Raised"
          /\ updates[i].at = "l174" =>
                /\ notion_calls' = notion_calls
                /\ user_data' = user_data
                /\ updates'[i].outcome = "NoPendingInteraction"]_vars

\* u2 confirms without a pending interaction while u1 has one
C8_Witness ==
  /\ Len(updates) = 2
  /\ updates[1].handler = "handle_message" /\ updates[1].user = "u1" /\ updates[1].stored
  /\ LastUpdate.handler = "handle_callback" /\ LastUpdate.user = "u2"
  /\ LastUpdate.outcome = "NoPendingInteraction"
  /\ user_data["u1"] # None /\ user_data["u2"] = None
  /\ notion_calls = <<>>

\* C9 (as stated): when a confirmation that called create_food_entry comes to
\* its end, the user's pending entry is deleted exactly when the call
\* reported success.
C9_ConsumedWhenPersisted ==
  [][\A k \in DOMAIN notion_calls :
       (/\ updates[notion_calls[k].update].at # "done"
        /\ updates'[notion_calls[k].update].at = "done") =>
          (notion_calls[k].call.success <=>
             user_data'[updates[notion_calls[k].update].user] = None)]_vars

\* the update that stored the interpretation the call c read
InterpretationOf(c) == c.of

\* C10 (as stated, counting the calls that persisted): no stored
\* interpretation is handed to the record store and persisted by more than one
\* confirmation, over every sequence and every interleaving of the handlers.
C10_AtMostOnce ==
  \A a, b \in DOMAIN notion_calls :
    (a # b /\ notion_calls[a].call.success /\ notion_calls[b].call.success) =>
      InterpretationOf(notion_calls[a]) # InterpretationOf(notion_calls[b])

\* what parse_food_with_ai makes of the text of the update upd
Interpretation(upd) ==
  CHOOSE r \in {parse_food_with_ai(upd.input, ai_parser[1], upd.reply, web) :
                  web \in BotWebOutcomes} : TRUE

\* the call c handed over the food name and the estimate of the entry e
Persists(c, e) ==
  /\ c.call.food_name = e.food_name
  /\ \A f \in Fields : c.call[f] = e.nutrition_data[1][f]

\* C11: an interpretation that handle_message shows replaces whatever the user
\* had pending: the stored entry is the interpretation of that message alone,
\* the pending map holds the entry of the user's latest store or, once a
\* confirmation has deleted it, nothing, and every confirmation hands the
\* record store the food name and estimate of the latest interpretation the
\* user had stored when it read the map, never those of one it replaced.
C11_LastWriteWins ==
  /\ \A i \in DOMAIN updates :
       (updates[i].handler = "handle_message" /\ updates[i].outcome = "Shown") =>
          /\ updates[i].stored
          /\ updates[i].entry # None
          /\ updates[i].entry[1] = Interpretation(updates[i])
  /\ \A u \in Users :
       IF Writer(u) = 0 THEN user_data[u] = None
       ELSE user_data[u] \in {None, updates[Writer(u)].entry}
  /\ \A k \in DOMAIN notion_calls :
       LET c == notion_calls[k]
       IN /\ c.of \in Stores
          /\ updates[c.of].user = updates[c.update].user
          /\ Persists(c, updates[c.of].entry[1])

\* u1 sends two messages that are interpreted differently, then confirms: the
\* second interpretation is persisted
C11_Witness ==
  /\ Len(updates) = 3 /\ Len(notion_calls) = 1
  /\ \A i \in {1, 2} : /\ updates[i].handler = "handle_message"
                        /\ updates[i].user = "u1"
                        /\ updates[i].outcome = "Shown"
  /\ updates[1].wrote < updates[2].wrote
  /\ updates[1].entry[1].food_name # updates[2].entry[1].food_name
  /\ updates[1].entry[1].nutrition_data[1].calories #
       updates[2].entry[1].nutrition_data[1].calories
  /\ updates[3].handler = "handle_callback" /\ updates[3].user = "u1"
  /\ updates[3].outcome = "Saved"
  /\ notion_calls[1].of = 2
  /\ Persists(notion_calls[1], updates[2].entry[1])
  /\ ~Persists(notion_calls[1], updates[1].entry[1])

\* this step handles an update of user u
UpdateOf(u) ==
  \E i \in DOMAIN updates' :
    /\ i \notin DOMAIN updates \/ updates'[i] # updates[i]
    /\ updates'[i].user = u

\* C12: a handle_message or handle_callback step of one user leaves the
\* pending interaction of every other user unchanged, and a confirmation that
\* reaches the record store hands over the confirming user's own pending
\* entry.
C12_UsersApart ==
  [][\A a \in Users :
       UpdateOf(a) =>
         /\ \A b \in Users \ {a} : user_data'[b] = user_data[b]
         /\ Len(notion_calls') > Len(notion_calls) =>
              /\ user_data[a] # None
              /\ Persists(notion_calls'[Len(notion_calls')], user_data[a][1])]_vars

\* both users have different interpretations pending; u2 confirms its own and
\* u1's is still pending
C12_Witness ==
  /\ Len(updates) = 3 /\ Len(notion_calls) = 1
  /\ updates[1].handler = "handle_message" /\ updates[1].user = "u1"
  /\ updates[2].handler = "handle_message" /\ updates[2].user = "u2"
  /\ updates[1].stored /\ updates[2].stored
  /\ updates[1].entry # updates[2].entry
  /\ updates[3].handler = "handle_callback" /\ updates[3].user = "u2"
  /\ updates[3].outcome = "Saved"
  /\ Persists(notion_calls[1], updates[2].entry[1])
  /\ ~Persists(notion_calls[1], updates[1].entry[1])
  /\ user_data["u1"] = updates[1].entry /\ user_data["u2"] = None

\* C18 (as stated, for the case it names): a food message without a calorie
\* token, handled with no language model and no web search configured, is
\* answered with a clarification request and stores no pending interaction.
C18_ClarificationAsked ==
  \A i \in DOMAIN updates :
    (/\ updates[i].handler = "handle_message"
     /\ updates[i].input = <<"I"," ","a","t","e"," ","r","i","c","e">>
     /\ ~ai_parser[1].bedrock_client /\ ~ai_parser[1].exa_api_key
     /\ updates[i].outcome \notin {"Raised", "Error", "Running"}) =>
       /\ updates[i].outcome = "Clarification"
       /\ ~updates[i].stored
       /\ updates[i].entry = None

====
